---- MODULE Spec2Model ----
(***************************************************************************)
(* The automation-condition sensor tick of                                 *)
(* dagster/_core/definitions/automation_condition_sensor_definition.py     *)
(* (evaluate_automation_conditions), with the collaborators it calls:      *)
(* the cursor (de)serialisation, the evaluator, with_updates and the run   *)
(* request builder.  The tick is modelled statement group by statement     *)
(* group (pc); the external history only changes between ticks (a tick     *)
(* evaluates against one queryer snapshot), the wall clock at any time.    *)
(*                                                                         *)
(* Beside it, each under a specification of its own: the creation of runs  *)
(* by DagsterInstance (dagster/core/instance/__init__.py), the default     *)
(* scheduling policy (dagster/_core/reactive_scheduling/                   *)
(* scheduling_policy.py), Definitions.merge and the binding of top-level   *)
(* resources to jobs (dagster/_core/definitions/definitions_class.py),     *)
(* infer_vscode_path (dagster_blueprints/cli.py), the construction of an   *)
(* AutomationConditionSensorDefinition and a call of its evaluation        *)
(* function, check_tags (dagster/core/storage/tags.py), and of             *)
(* DagsterInstance its get and its handling of events with their           *)
(* subscribers.                                                            *)
(***************************************************************************)
EXTENDS Integers, Sequences, FiniteSets, TLC

(* ------------------------------ bounds -------------------------------- *)
MaxTicks == 2
MaxClock == 2

(* --------------------------- the asset graph -------------------------- *)
\* Structural order of the asset keys (AssetKey ordering is structural).
KeyOrder == <<"agg", "clean", "gone", "raw", "side">>

AllKeys == {KeyOrder[i] : i \in 1..Len(KeyOrder)}

\* Nodes of the current asset graph; "gone" only occurs in old cursors.
GraphKeys == {"agg", "clean", "raw", "side"}

\* "depends on" edges: raw -> clean -> agg; side is isolated.
Deps(a) ==
  CASE a = "clean" -> {"raw"}
    [] a = "agg" -> {"clean"}
    [] OTHER -> {}

\* Partition keys of a node; "none" is the absent key of an unpartitioned asset.
PartitionsOf(a) == IF a = "clean" THEN {"p1", "p2"} ELSE {"none"}

AssetPartitions == {ap \in GraphKeys \X {"none", "p1", "p2"} : ap[2] \in PartitionsOf(ap[1])}

APOrder == <<<<"agg", "none">>, <<"clean", "p1">>, <<"clean", "p2">>,
             <<"raw", "none">>, <<"side", "none">>>>

\* Declared automation condition of a node ("none": no condition declared).
ConditionOf(a) ==
  CASE a = "raw" -> "missing"
    [] a = "clean" -> "eager"
    [] a = "agg" -> "newly_updated"
    [] OTHER -> "none"

KeyIndex(k) == CHOOSE i \in 1..Len(KeyOrder) : KeyOrder[i] = k

APIndex(ap) == CHOOSE i \in 1..Len(APOrder) : APOrder[i] = ap

(* ------------------------------ cursor -------------------------------- *)
\* An optional value is a sequence of length at most one.
None == <<>>

Some(x) == <<x>>

EmptyCursor ==
  [evaluation_id |-> 0, evaluation_timestamp |-> 0, cc |-> [k \in AllKeys |-> None]]

get_previous_condition_cursor(cursor, key) == cursor.cc[key]

RECURSIVE SortedKeys(_)
SortedKeys(S) ==
  IF S = {} THEN <<>>
  ELSE LET k == CHOOSE x \in S : \A y \in S : KeyIndex(x) <= KeyIndex(y)
       IN <<k>> \o SortedKeys(S \ {k})

\* The instigator's cursor string: a version marker and the packed fields.
NoCursorString == [version |-> "absent", evaluation_id |-> 0, timestamp |-> 0, entries |-> <<>>]

CursorVersion == "v1"

asset_daemon_cursor_to_instigator_serialized_cursor(cursor) ==
  LET keys == SortedKeys({k \in AllKeys : cursor.cc[k] # None})
  IN [version |-> CursorVersion,
      evaluation_id |-> cursor.evaluation_id,
      timestamp |-> cursor.evaluation_timestamp,
      entries |-> [i \in 1..Len(keys) |->
                     [key |-> keys[i],
                      hash |-> cursor.cc[keys[i]][1].result_value_hash,
                      ts |-> cursor.cc[keys[i]][1].effective_timestamp]]]

cursor_from_serialized_keeping_absent(str, graph) ==
  IF str.version # CursorVersion
  THEN [evaluation_id |-> 0, evaluation_timestamp |-> 0, cc |-> [k \in AllKeys |-> <<>>]]
  ELSE [evaluation_id |-> str.evaluation_id,
        evaluation_timestamp |-> str.timestamp,
        cc |-> [k \in AllKeys |->
                  IF \E i \in 1..Len(str.entries) : str.entries[i].key = k
                  THEN LET e == str.entries[CHOOSE i \in 1..Len(str.entries) : str.entries[i].key = k]
                       IN <<[key |-> k, result_value_hash |-> e.hash,
                             effective_timestamp |-> e.ts]>>
                  ELSE <<>>]]

cursor_from_serialized_any_version(str, graph) ==
  [evaluation_id |-> str.evaluation_id,
   evaluation_timestamp |-> str.timestamp,
   cc |-> [k \in AllKeys |->
             IF k \in graph /\ \E i \in 1..Len(str.entries) : str.entries[i].key = k
             THEN LET e == str.entries[CHOOSE i \in 1..Len(str.entries) : str.entries[i].key = k]
                  IN Some([key |-> k, result_value_hash |-> e.hash,
                           effective_timestamp |-> e.ts])
             ELSE None]]

asset_daemon_cursor_from_instigator_serialized_cursor(str, graph) ==
  IF str.version # CursorVersion THEN EmptyCursor
  ELSE [evaluation_id |-> str.evaluation_id,
        evaluation_timestamp |-> str.timestamp,
        cc |-> [k \in AllKeys |->
                  IF k \in graph /\ \E i \in 1..Len(str.entries) : str.entries[i].key = k
                  THEN LET e == str.entries[CHOOSE i \in 1..Len(str.entries) : str.entries[i].key = k]
                       IN Some([key |-> k, result_value_hash |-> e.hash,
                                effective_timestamp |-> e.ts])
                  ELSE None]]

\* A new cursor from the old one and the values it is given: the evaluation
\* id and timestamp of the tick, and the sub-cursors computed in it.
with_updates(cursor, evaluation_id, evaluation_timestamp, condition_cursors) ==
  [evaluation_id |-> evaluation_id,
   evaluation_timestamp |-> evaluation_timestamp,
   cc |-> [k \in AllKeys |->
             IF \E i \in 1..Len(condition_cursors) : condition_cursors[i].key = k
             THEN Some(condition_cursors[CHOOSE i \in 1..Len(condition_cursors) :
                                           condition_cursors[i].key = k])
             ELSE cursor.cc[k]]]

(* ----------------------------- evaluator ------------------------------ *)
ValueHashOfEmptiness(S) == IF S = {} THEN 0 ELSE 1

\* Stable hash of a true-set: one bit per asset partition.
RECURSIVE ValueHash(_)
ValueHash(S) ==
  IF S = {} THEN 0
  ELSE LET ap == CHOOSE x \in S : TRUE
       IN 2 ^ (APIndex(ap) - 1) + ValueHash(S \ {ap})

StructuralOrder(placed, remaining) ==
  LET ks == {k \in remaining : TRUE}
      n == Cardinality(ks)
      pos(k) == Cardinality({x \in ks : KeyIndex(x) <= KeyIndex(k)})
  IN [i \in 1..n |-> CHOOSE k \in ks : pos(k) = i]

\* Fixed topological order of the target keys: among the keys whose target
\* upstreams are all placed, the structurally least comes next.
RECURSIVE TopologicalOrder(_, _)
TopologicalOrder(placed, remaining) ==
  IF remaining = {} THEN <<>>
  ELSE LET ready == {k \in remaining : Deps(k) \cap remaining = {}}
           k == CHOOSE x \in ready : \A y \in ready : KeyIndex(x) <= KeyIndex(y)
       IN <<k>> \o TopologicalOrder(placed \cup {k}, remaining \ {k})

\* True-set of already-computed results of this tick for key u.
RequestedThisTick(results, u) ==
  UNION {results[i].true_slice : i \in {j \in 1..Len(results) : results[j].asset_key = u}}

\* True-set of one asset's condition against the history and its sub-cursor.
TrueSlice(a, cond, prev, results, mat) ==
  LET prevTs == IF prev = None THEN 0 ELSE prev[1].effective_timestamp
      ups == {ap \in AssetPartitions : ap[1] \in Deps(a)}
      upRequested == \E u \in Deps(a) : RequestedThisTick(results, u) # {}
  IN CASE cond = "missing" ->
            {ap \in AssetPartitions : ap[1] = a /\ mat[ap] = 0}
       [] cond = "eager" ->
            {ap \in AssetPartitions :
               ap[1] = a /\ (upRequested \/ \E u \in ups : mat[u] > mat[ap])}
       [] cond = "newly_updated" ->
            {ap \in AssetPartitions :
               ap[1] = a /\ (upRequested \/ \E u \in ups : mat[u] > prevTs)}
       [] OTHER -> {}

EvaluateAsset(a, cursor, results, mat, time, default_condition) ==
  LET cond == IF ConditionOf(a) = "none" THEN default_condition ELSE ConditionOf(a)
      prev == get_previous_condition_cursor(cursor, a)
      ts == TrueSlice(a, cond, prev, results, mat)
  IN [asset_key |-> a,
      true_slice |-> ts,
      value_hash |-> ValueHash(ts),
      new_cursor |-> [key |-> a, result_value_hash |-> ValueHash(ts),
                      effective_timestamp |-> time],
      serializable_evaluation |-> [asset_key |-> a, true_subset |-> ts,
                                   timestamp |-> time]]

(* ------------------------- run request builder ------------------------ *)
\* One run request per partition key, over the assets of the graph that are
\* requested under that key; it is given the asset partitions, the asset graph
\* and the run tags, and nothing of the instance.
build_run_requests(asset_partitions, asset_graph, run_tags) ==
  LET known == {ap \in asset_partitions : ap[1] \in asset_graph}
      pks == {ap[2] : ap \in known}
  IN {[partition_key |-> pk,
       asset_selection |-> {ap[1] : ap \in {x \in known : x[2] = pk}},
       tags |-> run_tags] : pk \in pks}

(* ------------------------------- state -------------------------------- *)
VARIABLES
  clock,            \* wall clock (get_current_datetime)
  materialized,     \* history: time of the latest materialization, 0 = never
  in_flight,        \* history: asset partitions targeted by a run in flight
  persisted,        \* instigator state: the serialized cursor of the sensor
  selection,        \* sensor_def.asset_selection resolved on the graph
  ticks,            \* ticks started so far
  pc,               \* position of the tick
  has_repository,   \* context.repository_def is set
  context_cursor,   \* context.cursor of the running tick
  evaluation_time,  \* instance_queryer.evaluation_time
  cursor,           \* the loaded cursor
  results,          \* evaluator results, in evaluation order
  to_request,       \* evaluator's requested asset partitions
  new_cursor,       \* cursor.with_updates(...)
  run_requests,     \* build_run_requests(...)
  observed,         \* per evaluated asset, the upstream results it read
  sensor_result,    \* the tick's return value, None while there is none
  last_committed,   \* what the last committed tick computed and returned
  last_attempt      \* inputs and outputs of the last returned tick, while the
                    \* inputs of the sensor are still those

\* DagsterInstance and its run storage (dagster/core/instance/__init__.py).
VARIABLES
  run_storage,      \* run storage: per run id, the run stored under it, if any
  call,             \* per caller, the call of the instance it is in
  calls_started,    \* calls started so far
  add_runs          \* per run id, the runs add_run has stored under it so far

sensorVars == <<clock, materialized, in_flight, persisted, selection, ticks, pc,
                has_repository, context_cursor, evaluation_time, cursor, results,
                to_request, new_cursor, run_requests, observed, sensor_result,
                last_committed, last_attempt>>

instanceVars == <<run_storage, call, calls_started, add_runs>>

\* A tick of reactive scheduling over the scheduling policies of the assets
\* (dagster/_core/reactive_scheduling/scheduling_policy.py).
VARIABLES
  scheduling_pc,            \* position of the scheduling tick
  scheduling_tick,          \* what the contexts of the tick are built from
  scheduling_results,       \* per asset scheduled so far, the policy's result
  scheduling_run_requests,  \* the run requests of the tick
  scheduling_reactions      \* the reactions the policies gave to requests in the tick

schedulingVars == <<scheduling_pc, scheduling_tick, scheduling_results,
                    scheduling_run_requests, scheduling_reactions>>

\* A call of Definitions.merge (dagster/_core/definitions/definitions_class.py).
VARIABLES
  merge_pc,         \* position of the call
  def_sets,         \* the arguments
  merge_i,          \* the loop index i
  merged,           \* assets, schedules, ..., resources, loggers, executor so far
  merge_outcome     \* the Definitions returned or the error raised

mergeVars == <<merge_pc, def_sets, merge_i, merged, merge_outcome>>

\* A call of infer_vscode_path (dagster_blueprints/cli.py).
VARIABLES
  infer_pc,         \* position of the call
  vscode_dirs,      \* file system: the directories that hold a .vscode
  argument_path,    \* the base_path the call was given
  base_path,        \* the local base_path, reassigned by the loop
  infer_result      \* the value returned

inferVars == <<infer_pc, vscode_dirs, argument_path, base_path, infer_result>>

\* A call of _attach_resources_to_jobs_and_instigator_jobs
\* (dagster/_core/definitions/definitions_class.py).
VARIABLES
  attach_pc,            \* position of the call
  attach_jobs,          \* the jobs argument, deduplicated
  resource_defs,        \* the top-level resource_defs argument
  unsatisfied_jobs,     \* the positions in jobs of the unsatisfied jobs
  jobs_with_resources   \* the jobs returned

attachVars == <<attach_pc, attach_jobs, resource_defs, unsatisfied_jobs,
                jobs_with_resources>>

\* An AutomationConditionSensorDefinition from its construction to a call of
\* its evaluation function
\* (dagster/_core/definitions/automation_condition_sensor_definition.py).
VARIABLES
  definition_pc,      \* position: construction, then evaluation
  sensor_kwargs,      \* the keyword arguments __init__ was given
  sensor_def,         \* the sensor definition constructed, if any
  definition_error,   \* the error __init__ raised
  evaluation          \* the call of evaluation_fn: its context and outcome

definitionVars == <<definition_pc, sensor_kwargs, sensor_def, definition_error,
                    evaluation>>

\* A call of check_tags (dagster/core/storage/tags.py).
VARIABLES
  check_tags_pc,        \* position of the call
  obj,                  \* the argument: None or a mapping
  check_tags_outcome    \* "none" while it runs, then "returned" or the error

tagsVars == <<check_tags_pc, obj, check_tags_outcome>>

\* A call of DagsterInstance.get (dagster/core/instance/__init__.py).
VARIABLES
  get_pc,             \* position of the call
  environ,            \* the process environment: DAGSTER_HOME and the user's home
  fallback_storage,   \* the argument
  got_instance        \* the instance returned, if any

getVars == <<get_pc, environ, fallback_storage, got_instance>>

\* DagsterInstance.handle_new_event and add_event_listener
\* (dagster/core/instance/__init__.py), over the run storage above.
VARIABLES
  event_storage,    \* event storage: the events stored, in order
  _subscribers,     \* per run id, the callbacks registered, in order
  handling,         \* the handle_new_event call at hand
  events_seen,      \* events handed to handle_new_event so far
  sub_calls         \* the calls of subscribers for the event at hand, in order

eventVars == <<event_storage, _subscribers, handling, events_seen, sub_calls>>

vars == <<sensorVars, instanceVars, schedulingVars, mergeVars, inferVars,
          attachVars,
          definitionVars,
          tagsVars,
          getVars,
          eventVars>>

\* What a step of the sensor tick leaves alone.
outsideSensor == <<instanceVars, schedulingVars, mergeVars, inferVars,
                   attachVars,
                   definitionVars,
                   tagsVars,
                   getVars,
                   eventVars>>

\* What a step of a call of the instance leaves alone.
outsideInstance == <<sensorVars, schedulingVars, mergeVars, inferVars,
                     attachVars,
                     definitionVars,
                     tagsVars,
                     getVars,
                     eventVars>>

\* What a step of a scheduling tick leaves alone.
outsideScheduling == <<sensorVars, instanceVars, mergeVars, inferVars,
                       attachVars,
                       definitionVars,
                       tagsVars,
                       getVars,
                       eventVars>>

\* What a step of Definitions.merge leaves alone.
outsideMerge == <<sensorVars, instanceVars, schedulingVars, inferVars,
                  attachVars,
                  definitionVars,
                  tagsVars,
                  getVars,
                  eventVars>>

\* What a step of infer_vscode_path leaves alone.
outsideInfer == <<sensorVars, instanceVars, schedulingVars, mergeVars,
                  attachVars,
                  definitionVars,
                  tagsVars,
                  getVars,
                  eventVars>>

\* What a step of the binding of resources leaves alone.
outsideAttach == <<sensorVars, instanceVars, schedulingVars, mergeVars,
                   inferVars,
                   definitionVars,
                   tagsVars,
                   getVars,
                   eventVars>>

\* What a step of a sensor definition leaves alone.
outsideDefinition == <<sensorVars, instanceVars, schedulingVars, mergeVars,
                       inferVars, attachVars,
                       tagsVars,
                       getVars,
                       eventVars>>

\* What a step of check_tags leaves alone.
outsideTags == <<sensorVars, instanceVars, schedulingVars, mergeVars,
                 inferVars, attachVars, definitionVars,
                 getVars,
                 eventVars>>

\* What a step of DagsterInstance.get leaves alone.
outsideGet == <<sensorVars, instanceVars, schedulingVars, mergeVars,
                inferVars, attachVars, definitionVars, tagsVars,
                eventVars>>

\* What a step of the handling of events leaves alone (it writes run storage).
outsideEvent == <<sensorVars, schedulingVars, mergeVars, inferVars,
                  attachVars, definitionVars, tagsVars, getVars>>

history == <<materialized, in_flight>>

locals == <<context_cursor, evaluation_time, cursor, results, to_request,
            new_cursor, run_requests, observed>>

\* context.instance.auto_materialize_run_tags
RunTags == {<<"team", "data">>}

\* sensor_def.default_automation_condition (None by default)
DefaultAutomationCondition == "none"

Selections == {{"raw", "clean", "agg"}, {"clean", "agg", "side"}}

\* Cursor strings the instigator may hold when the sensor is first ticked.
SubCursorEntry(k, h, t) == [key |-> k, hash |-> h, ts |-> t]

InitialCursorStrings ==
  { NoCursorString,
    [version |-> "garbage", evaluation_id |-> 0, timestamp |-> 0, entries |-> <<>>],
    [version |-> "v0", evaluation_id |-> 7, timestamp |-> 1,
     entries |-> <<SubCursorEntry("agg", 1, 1)>>],
    [version |-> CursorVersion, evaluation_id |-> 3, timestamp |-> 1,
     entries |-> <<SubCursorEntry("gone", 0, 1), SubCursorEntry("raw", 8, 1),
                   SubCursorEntry("side", 0, 1)>>] }

SensorInit ==
  /\ clock = 1
  /\ materialized = [ap \in AssetPartitions |-> 0]
  /\ in_flight = {}
  /\ persisted \in InitialCursorStrings
  /\ selection \in Selections
  /\ ticks = 0
  /\ pc = "idle"
  /\ has_repository = TRUE
  /\ context_cursor = NoCursorString
  /\ evaluation_time = 0
  /\ cursor = EmptyCursor
  /\ results = <<>>
  /\ to_request = {}
  /\ new_cursor = None
  /\ run_requests = {}
  /\ observed = <<>>
  /\ sensor_result = None
  /\ last_committed = None
  /\ last_attempt = None

\* A sensor that is not ticked: the state the other components run beside.
SensorAtRest ==
  /\ SensorInit
  /\ persisted = NoCursorString
  /\ selection = {"raw", "clean", "agg"}

(* ------------------------- the tick, in order ------------------------- *)
EvaluationOrder == TopologicalOrder({}, selection)

\* The evaluation id the tick hands to with_updates.
EvaluationIdArgument(c) == c.evaluation_id

EvaluationTimestampArgumentReread(queryer_time, now) == now

\* The evaluation timestamp the tick hands to with_updates.
EvaluationTimestampArgument(queryer_time, now) == queryer_time

ConditionCursorsOfRequested(rs) ==
  LET keep == SelectSeq(rs, LAMBDA r : r.true_slice # {})
  IN [i \in 1..Len(keep) |-> keep[i].new_cursor]

\* The condition cursors the tick hands to with_updates.
ConditionCursors(rs) == [i \in 1..Len(rs) |-> rs[i].new_cursor]

ShouldRecordEqualHash(previous_cursor, result) ==
  \/ previous_cursor = None
  \/ previous_cursor[1].result_value_hash = result.value_hash
  \/ result.true_slice # {}

ShouldRecordAlways(previous_cursor, result) == TRUE

ShouldRecordSymmetric(previous_cursor, result) ==
  \/ previous_cursor = None
  \/ previous_cursor[1].result_value_hash # result.value_hash

ShouldRecordChangedOrNonEmpty(previous_cursor, result) ==
  \/ previous_cursor # None /\ previous_cursor[1].result_value_hash # result.value_hash
  \/ result.true_slice # {}

\* "only record evaluation results where something changed"
ShouldRecord(previous_cursor, result) ==
  \/ previous_cursor = None
  \/ previous_cursor[1].result_value_hash # result.value_hash
  \/ result.true_slice # {}

RECURSIVE UpdatedEvaluations(_, _)
UpdatedEvaluations(c, rs) ==
  IF rs = <<>> THEN <<>>
  ELSE LET r == Head(rs)
       IN (IF ShouldRecord(get_previous_condition_cursor(c, r.asset_key), r)
           THEN <<r.serializable_evaluation>> ELSE <<>>)
          \o UpdatedEvaluations(c, Tail(rs))

AssetPartitionsOfChanged(requested, c, rs) ==
  UNION {rs[i].true_slice :
           i \in {j \in 1..Len(rs) :
                    \/ get_previous_condition_cursor(c, rs[j].asset_key) = None
                    \/ get_previous_condition_cursor(c, rs[j].asset_key)[1].result_value_hash
                         # rs[j].value_hash}}

\* The asset partitions the tick hands to build_run_requests.
AssetPartitionsArgument(requested, c, rs) == requested

\* auto_materialize_run_tags handed to the evaluator.
EvaluatorRunTags == {}

RunTagsArgumentOfEvaluator(instance_tags, evaluator_tags) == evaluator_tags

\* The run tags the tick hands to build_run_requests: those of the instance;
\* "tick_id and sensor tags should get set in daemon".
RunTagsArgument(instance_tags, evaluator_tags) == instance_tags

ReturnedCursorOld(old, new) == old

\* The cursor whose serialization the tick returns.
ReturnedCursor(old, new) == new

SensorResult(rr, c, evals) ==
  [run_requests |-> rr,
   cursor |-> asset_daemon_cursor_to_instigator_serialized_cursor(c),
   automation_condition_evaluations |-> evals]

\* evaluator.evaluate(): the assets in order, each against the results so far.
RECURSIVE EvaluateAll(_, _, _, _, _)
EvaluateAll(order, done, c, mat, time) ==
  IF Len(done) = Len(order) THEN done
  ELSE EvaluateAll(order,
                   Append(done, EvaluateAsset(order[Len(done) + 1], c, done, mat, time,
                                              DefaultAutomationCondition)),
                   c, mat, time)

\* evaluate_automation_conditions(context, sensor_def) as a whole: what a
\* tick returns, as a function of the cursor string, the time, the
\* selection and the history alone.
TickOutputs(str, now, sel, mat) ==
  LET c == asset_daemon_cursor_from_instigator_serialized_cursor(str, GraphKeys)
      rs == EvaluateAll(TopologicalOrder({}, sel), <<>>, c, mat, now)
      nc == with_updates(c, c.evaluation_id, now, [i \in 1..Len(rs) |-> rs[i].new_cursor])
  IN SensorResult(build_run_requests(UNION {rs[i].true_slice : i \in 1..Len(rs)},
                                     GraphKeys, RunTags),
                  nc, UpdatedEvaluations(c, rs))

InstanceQueryerKept(kept_time, now) == IF kept_time = 0 THEN now ELSE kept_time

\* The evaluation time of the tick's instance queryer: a CachingInstanceQueryer
\* is constructed in every tick, with evaluation_time=get_current_datetime().
InstanceQueryerEvaluationTime(kept_time, now) == now

\* Lines 39-79: graph, queryer bound to now, views, cursor load, evaluator.
BeginTick ==
  /\ pc = "idle"
  /\ ticks < MaxTicks
  /\ ticks' = ticks + 1
  /\ \E repo \in BOOLEAN :
       /\ has_repository' = repo
       /\ IF repo
          THEN /\ pc' = "evaluate"
               /\ evaluation_time' = InstanceQueryerEvaluationTime(evaluation_time, clock)
               /\ context_cursor' = persisted
               /\ cursor' = asset_daemon_cursor_from_instigator_serialized_cursor(
                              persisted, GraphKeys)
          ELSE /\ pc' = "raised"
               /\ UNCHANGED <<evaluation_time, context_cursor, cursor>>
  /\ results' = <<>>
  /\ to_request' = {}
  /\ new_cursor' = None
  /\ run_requests' = {}
  /\ observed' = <<>>
  /\ sensor_result' = None
  /\ UNCHANGED <<clock, history, persisted, selection, last_committed,
                 last_attempt>>

\* Line 80, one asset of evaluator.evaluate().
EvaluateNext ==
  /\ pc = "evaluate"
  /\ Len(results) < Len(EvaluationOrder)
  /\ results' = Append(results,
       EvaluateAsset(EvaluationOrder[Len(results) + 1], cursor, results,
                     materialized, evaluation_time, DefaultAutomationCondition))
  /\ observed' = Append(observed,
       {<<u, RequestedThisTick(results, u)>> : u \in Deps(EvaluationOrder[Len(results) + 1])})
  /\ UNCHANGED <<clock, history, persisted, selection, ticks, pc, has_repository,
                 context_cursor, evaluation_time, cursor, to_request, new_cursor,
                 run_requests, sensor_result, last_committed, last_attempt>>

\* Lines 80-86: evaluate() returns; the new cursor is computed.
UpdateCursor ==
  /\ pc = "evaluate"
  /\ Len(results) = Len(EvaluationOrder)
  /\ to_request' = UNION {results[i].true_slice : i \in 1..Len(results)}
  /\ new_cursor' = Some(with_updates(cursor, EvaluationIdArgument(cursor),
                          EvaluationTimestampArgument(evaluation_time, clock),
                          ConditionCursors(results)))
  /\ pc' = "build"
  /\ UNCHANGED <<clock, history, persisted, selection, ticks, has_repository,
                 context_cursor, evaluation_time, cursor, results, run_requests,
                 observed, sensor_result, last_committed, last_attempt>>

\* Lines 87-92.
BuildRunRequests ==
  /\ pc = "build"
  /\ run_requests' = build_run_requests(AssetPartitionsArgument(to_request, cursor, results),
                                        GraphKeys, RunTagsArgument(RunTags, EvaluatorRunTags))
  /\ pc' = "record"
  /\ UNCHANGED <<clock, history, persisted, selection, ticks, has_repository,
                 context_cursor, evaluation_time, cursor, results, to_request,
                 new_cursor, observed, sensor_result, last_committed, last_attempt>>

\* Lines 93-108.
Return ==
  /\ pc = "record"
  /\ sensor_result' = Some(SensorResult(run_requests,
                             ReturnedCursor(cursor, new_cursor[1]),
                             UpdatedEvaluations(cursor, results)))
  /\ pc' = "done"
  /\ UNCHANGED <<clock, history, persisted, selection, ticks, has_repository,
                 locals, last_committed, last_attempt>>

RaiseInTickPartial ==
  /\ pc \in {"evaluate", "build"}
  /\ pc' = "raised"
  /\ sensor_result' = Some([run_requests |-> run_requests,
                            cursor |-> context_cursor,
                            automation_condition_evaluations |-> <<>>])
  /\ UNCHANGED <<clock, materialized, in_flight, persisted, selection, ticks,
                 has_repository, context_cursor, evaluation_time, cursor, results,
                 to_request, new_cursor, run_requests, observed, last_committed, last_attempt>>

\* A storage query of the evaluator or of the run request builder raises:
\* the exception leaves evaluate_automation_conditions, nothing is returned.
RaiseInTick ==
  /\ pc \in {"evaluate", "build"}
  /\ pc' = "raised"
  /\ sensor_result' = None
  /\ UNCHANGED <<clock, history, persisted, selection, ticks, has_repository,
                 locals, last_committed, last_attempt>>

(* --------------------------- the sensor daemon ------------------------ *)
TickInputs ==
  [cursor |-> context_cursor, now |-> evaluation_time, selection |-> selection,
   materialized |-> materialized, in_flight |-> in_flight]

CommittedTick ==
  [cursor |-> sensor_result[1].cursor, results |-> results, new_cursor |-> new_cursor[1]]

ReturnedTick ==
  [inputs |-> TickInputs, outputs |-> sensor_result[1], results |-> results]

\* The tick's context and objects are dropped when the tick is over; of the
\* queryer the evaluation time it was bound to is kept in sight, for the next
\* tick to be seen not to use it.
DropTick ==
  /\ pc' = "idle"
  /\ has_repository' = TRUE
  /\ context_cursor' = NoCursorString
  /\ UNCHANGED evaluation_time
  /\ cursor' = EmptyCursor
  /\ results' = <<>>
  /\ to_request' = {}
  /\ new_cursor' = None
  /\ run_requests' = {}
  /\ observed' = <<>>
  /\ sensor_result' = None

Requested(rrs) == {ap \in AssetPartitions :
                     \E rr \in rrs : ap[2] = rr.partition_key /\ ap[1] \in rr.asset_selection}

\* The tick's result is committed: cursor stored, run requests launched.
Persist ==
  /\ pc = "done"
  /\ persisted' = sensor_result[1].cursor
  /\ in_flight' = in_flight \cup Requested(sensor_result[1].run_requests)
  /\ last_committed' = Some(CommittedTick)
  /\ last_attempt' = Some(ReturnedTick)
  /\ DropTick
  /\ UNCHANGED <<clock, materialized, selection, ticks>>

\* The tick is cancelled or timed out before its result is committed.
Discard ==
  /\ pc = "done"
  /\ last_attempt' = Some(ReturnedTick)
  /\ DropTick
  /\ UNCHANGED <<clock, history, persisted, selection, ticks, last_committed>>

\* A failed tick is abandoned.
Abandon ==
  /\ pc = "raised"
  /\ DropTick
  /\ UNCHANGED <<clock, history, persisted, selection, ticks, last_committed,
                 last_attempt>>

(* ----------------------------- environment ---------------------------- *)
\* Time passes.  The tick reads the clock once, when it begins, so time
\* passing anywhere later in the tick is covered by time passing right after
\* that read.
AdvanceClock ==
  /\ pc = "idle" \/ (pc = "evaluate" /\ results = <<>>)
  /\ clock < MaxClock
  /\ clock' = clock + 1
  /\ last_attempt' = IF pc = "idle" THEN None ELSE last_attempt
  /\ UNCHANGED <<history, persisted, selection, ticks, pc, has_repository, locals,
                 sensor_result, last_committed>>

\* Source data lands outside any run.
ExternalMaterialization ==
  /\ pc = "idle"
  /\ materialized[<<"raw", "none">>] < clock
  /\ materialized' = [materialized EXCEPT ![<<"raw", "none">>] = clock]
  /\ last_attempt' = None
  /\ UNCHANGED <<clock, in_flight, persisted, selection, ticks, pc, has_repository,
                 locals, sensor_result, last_committed>>

\* A run in flight completes: the asset partitions of its partition key are
\* materialized.
RunCompletes ==
  /\ pc = "idle"
  /\ \E pk \in {ap[2] : ap \in in_flight} :
       LET done == {ap \in in_flight : ap[2] = pk}
       IN /\ materialized' = [ap \in AssetPartitions |->
                                IF ap \in done THEN clock ELSE materialized[ap]]
          /\ in_flight' = in_flight \ done
  /\ last_attempt' = None
  /\ UNCHANGED <<clock, persisted, selection, ticks, pc, has_repository, locals,
                 sensor_result, last_committed>>

(* ------------------ DagsterInstance: creation of runs ------------------ *)
MaxCalls == 3

RunIds == {"r1", "r2"}

PipelineNames == {"etl", "report"}

\* The pipeline runs callers ask for: not started yet.
PipelineRuns == [run_id : RunIds, pipeline_name : PipelineNames, status : {"NOT_STARTED"}]

Callers == {"c1", "c2"}

NoCall ==
  [op |-> "none", pipeline_run |-> None, pc |-> "idle", existed |-> "no",
   value |-> None, error |-> "none"]

has_run_never(storage, run_id) == FALSE

has_run(storage, run_id) == storage[run_id] # None

get_run_by_id(storage, run_id) == storage[run_id]

\* RunStorage.add_run: at most one run per run id is ever stored.
add_run(storage, pipeline_run) ==
  IF storage[pipeline_run.run_id] # None
  THEN [storage |-> storage, error |-> "DagsterRunAlreadyExists"]
  ELSE [storage |-> [storage EXCEPT ![pipeline_run.run_id] = Some(pipeline_run)],
        error |-> "none"]

\* RunStorage.handle_run_event: a pipeline event updates the stored run.
handle_run_event(storage, run_id) ==
  IF storage[run_id] = None THEN storage
  ELSE [storage EXCEPT ![run_id] = Some([storage[run_id][1] EXCEPT !.status = "STARTED"])]

InstanceInit ==
  /\ run_storage = [r \in RunIds |-> None]
  /\ call = [p \in Callers |-> NoCall]
  /\ calls_started = 0
  /\ add_runs = [r \in RunIds |-> 0]

Returns(p, value) ==
  call' = [call EXCEPT ![p].pc = "returned", ![p].value = value]

Raises(p, error) ==
  call' = [call EXCEPT ![p].pc = "raised", ![p].error = error]

ReturnsTheStoredRun(p) ==
  Returns(p, get_run_by_id(run_storage, call[p].pipeline_run[1].run_id))

\* DagsterRunAlreadyExists leaves create_run: get_or_create_run catches it,
\* a direct caller of create_run gets it.
RaisesAlreadyExists(p) ==
  IF call[p].op = "get_or_create_run"
  THEN call' = [call EXCEPT ![p].pc = "handler_has_run", ![p].existed = "raced"]
  ELSE Raises(p, "DagsterRunAlreadyExists")

CallGetOrCreateRun(p) ==
  /\ call[p].pc = "idle"
  /\ calls_started < MaxCalls
  /\ \E run \in PipelineRuns :
       call' = [call EXCEPT ![p] = [NoCall EXCEPT !.op = "get_or_create_run",
                                                  !.pipeline_run = Some(run),
                                                  !.pc = "goc_has_run"]]
  /\ calls_started' = calls_started + 1
  /\ UNCHANGED <<run_storage, add_runs>>

CallCreateRun(p) ==
  /\ call[p].pc = "idle"
  /\ calls_started < MaxCalls
  /\ \E run \in PipelineRuns :
       call' = [call EXCEPT ![p] = [NoCall EXCEPT !.op = "create_run",
                                                  !.pipeline_run = Some(run),
                                                  !.pc = "create_has_run"]]
  /\ calls_started' = calls_started + 1
  /\ UNCHANGED <<run_storage, add_runs>>

\* get_or_create_run: "if self.has_run(pipeline_run.run_id)".
GetOrCreateHasRun(p) ==
  /\ call[p].pc = "goc_has_run"
  /\ IF has_run(run_storage, call[p].pipeline_run[1].run_id)
     THEN call' = [call EXCEPT ![p].pc = "goc_candidate", ![p].existed = "on_entry"]
     ELSE call' = [call EXCEPT ![p].pc = "create_has_run"]
  /\ UNCHANGED <<run_storage, calls_started, add_runs>>

RunConflictNever(candidate_run, pipeline_run) == FALSE

RunConflictAlways(candidate_run, pipeline_run) == TRUE

\* "if not candidate_run == pipeline_run"
RunConflict(candidate_run, pipeline_run) == ~(candidate_run = Some(pipeline_run))

\* get_or_create_run, the run exists: the candidate is read and compared.
GetOrCreateCandidate(p) ==
  /\ call[p].pc = "goc_candidate"
  /\ LET candidate_run == get_run_by_id(run_storage, call[p].pipeline_run[1].run_id)
     IN IF RunConflict(candidate_run, call[p].pipeline_run[1])
        THEN Raises(p, "DagsterRunConflict")
        ELSE Returns(p, candidate_run)
  /\ UNCHANGED <<run_storage, calls_started, add_runs>>

\* create_run: "if self.has_run(pipeline_run.run_id): raise".
CreateRunHasRun(p) ==
  /\ call[p].pc = "create_has_run"
  /\ IF has_run(run_storage, call[p].pipeline_run[1].run_id)
     THEN RaisesAlreadyExists(p)
     ELSE call' = [call EXCEPT ![p].pc = "create_add_run"]
  /\ UNCHANGED <<run_storage, calls_started, add_runs>>

\* create_run: "run = self._run_storage.add_run(pipeline_run); return run".
CreateRunAddRun(p) ==
  /\ call[p].pc = "create_add_run"
  /\ LET added == add_run(run_storage, call[p].pipeline_run[1])
         run_id == call[p].pipeline_run[1].run_id
     IN /\ run_storage' = added.storage
        /\ IF added.error = "none"
           THEN /\ Returns(p, call[p].pipeline_run)
                /\ add_runs' = [add_runs EXCEPT ![run_id] = @ + 1]
           ELSE /\ RaisesAlreadyExists(p)
                /\ UNCHANGED add_runs
  /\ UNCHANGED calls_started

\* get_or_create_run, except DagsterRunAlreadyExists: "if not self.has_run".
HandlerHasRun(p) ==
  /\ call[p].pc = "handler_has_run"
  /\ IF has_run(run_storage, call[p].pipeline_run[1].run_id)
     THEN call' = [call EXCEPT ![p].pc = "handler_get_run"]
     ELSE Raises(p, "CheckError")
  /\ UNCHANGED <<run_storage, calls_started, add_runs>>

\* get_or_create_run, except DagsterRunAlreadyExists: "return self.get_run_by_id".
HandlerGetRun(p) ==
  /\ call[p].pc = "handler_get_run"
  /\ Returns(p, get_run_by_id(run_storage, call[p].pipeline_run[1].run_id))
  /\ UNCHANGED <<run_storage, calls_started, add_runs>>

\* The caller has its value or its exception.
CallEnds(p) ==
  /\ call[p].pc \in {"returned", "raised"}
  /\ call' = [call EXCEPT ![p] = NoCall]
  /\ UNCHANGED <<run_storage, calls_started, add_runs>>

\* DagsterInstance.handle_run_event for a pipeline event of a stored run.
HandleRunEvent ==
  /\ \E r \in RunIds :
       /\ has_run(run_storage, r)
       /\ run_storage[r][1].status = "NOT_STARTED"
       /\ run_storage' = handle_run_event(run_storage, r)
  /\ UNCHANGED <<call, calls_started, add_runs>>

InstanceNext ==
  \/ \E p \in Callers : CallGetOrCreateRun(p) /\ UNCHANGED outsideInstance
  \/ \E p \in Callers : CallCreateRun(p) /\ UNCHANGED outsideInstance
  \/ \E p \in Callers : GetOrCreateHasRun(p) /\ UNCHANGED outsideInstance
  \/ \E p \in Callers : GetOrCreateCandidate(p) /\ UNCHANGED outsideInstance
  \/ \E p \in Callers : CreateRunHasRun(p) /\ UNCHANGED outsideInstance
  \/ \E p \in Callers : CreateRunAddRun(p) /\ UNCHANGED outsideInstance
  \/ \E p \in Callers : HandlerHasRun(p) /\ UNCHANGED outsideInstance
  \/ \E p \in Callers : HandlerGetRun(p) /\ UNCHANGED outsideInstance
  \/ \E p \in Callers : CallEnds(p) /\ UNCHANGED outsideInstance
  \/ HandleRunEvent /\ UNCHANGED outsideInstance

(* ------------------- reactive scheduling: the policies ----------------- *)
MaxSchedulingTime == 3

\* Two assets, B depending on A, in the order a tick visits them.
SchedulingOrder == <<"A", "B">>

SchedulingAssets == {SchedulingOrder[i] : i \in 1..Len(SchedulingOrder)}

\* SchedulingResult(launch, cursor=None, explicit_partition_keys=None)
SchedulingResult(launch) ==
  [launch |-> launch, cursor |-> None, explicit_partition_keys |-> None]

SchedulingExecutionContext(tick, asset_key) ==
  [previous_tick_dt |-> tick.previous_tick_dt,
   tick_dt |-> tick.tick_dt,
   asset_key |-> asset_key,
   previous_cursor |-> tick.previous_cursors[asset_key]]

schedule_launching(context) == SchedulingResult(TRUE)

\* DefaultSchedulingPolicy.schedule
schedule(context) == SchedulingResult(FALSE)

\* RequestReaction(include)
RequestReaction(include) == [include |-> include]

\* DefaultSchedulingPolicy.react_to_downstream_request: the value returned.
react_to_downstream_request(context, asset_partition) == Some(RequestReaction(FALSE))

\* SchedulingPolicy.react_to_upstream_request, which DefaultSchedulingPolicy
\* inherits: the body is "...", the call returns None.
react_to_upstream_request(context, asset_partition) == None

NoSchedulingTick ==
  [previous_tick_dt |-> None, tick_dt |-> 0,
   previous_cursors |-> [a \in SchedulingAssets |-> None]]

SchedulingInit ==
  /\ scheduling_pc = "idle"
  /\ scheduling_tick = NoSchedulingTick
  /\ scheduling_results = <<>>
  /\ scheduling_run_requests = <<>>
  /\ scheduling_reactions = {}

\* A tick begins: the time, the time of the previous tick if there was one,
\* and the cursors the policies returned before, if any.
BeginSchedulingTick ==
  /\ scheduling_pc = "idle"
  /\ \E now \in 1..MaxSchedulingTime :
       \E previous \in {None} \cup {Some(t) : t \in 0..(now - 1)} :
         \E cursors \in [SchedulingAssets -> {None, Some("cursor")}] :
           scheduling_tick' = [previous_tick_dt |-> previous, tick_dt |-> now,
                               previous_cursors |-> cursors]
  /\ scheduling_pc' = "scheduling"
  /\ scheduling_results' = <<>>
  /\ scheduling_run_requests' = <<>>
  /\ scheduling_reactions' = {}

\* The policy of the next asset is asked.
ScheduleAsset ==
  /\ scheduling_pc = "scheduling"
  /\ Len(scheduling_results) < Len(SchedulingOrder)
  /\ LET a == SchedulingOrder[Len(scheduling_results) + 1]
     IN scheduling_results' =
          Append(scheduling_results,
                 [asset_key |-> a,
                  result |-> schedule(SchedulingExecutionContext(scheduling_tick, a))])
  /\ UNCHANGED <<scheduling_pc, scheduling_tick, scheduling_run_requests,
                 scheduling_reactions>>

\* The policy of an asset is asked how it reacts to the request of a
\* partition of the other asset, downstream or upstream of it.
ReactToRequest ==
  /\ scheduling_pc = "scheduling"
  /\ \E a \in SchedulingAssets, method \in {"downstream", "upstream"} :
       LET asset_partition == <<CHOOSE b \in SchedulingAssets : b # a, "none">>
           context == SchedulingExecutionContext(scheduling_tick, a)
       IN scheduling_reactions' = scheduling_reactions \cup
            {[method |-> method, asset_key |-> a, asset_partition |-> asset_partition,
              reaction |->
                IF method = "downstream"
                THEN react_to_downstream_request(context, asset_partition)
                ELSE react_to_upstream_request(context, asset_partition)]}
  /\ UNCHANGED <<scheduling_pc, scheduling_tick, scheduling_results,
                 scheduling_run_requests>>

\* One run request per asset whose policy said launch.
RunRequestsOfLaunched(rs) ==
  LET launched == SelectSeq(rs, LAMBDA r : r.result.launch)
  IN [i \in 1..Len(launched) |->
        [asset_selection |-> {launched[i].asset_key},
         partition_keys |-> launched[i].result.explicit_partition_keys]]

BuildSchedulingRunRequests ==
  /\ scheduling_pc = "scheduling"
  /\ Len(scheduling_results) = Len(SchedulingOrder)
  /\ scheduling_run_requests' = RunRequestsOfLaunched(scheduling_results)
  /\ scheduling_pc' = "built"
  /\ UNCHANGED <<scheduling_tick, scheduling_results, scheduling_reactions>>

EndSchedulingTick ==
  /\ scheduling_pc = "built"
  /\ scheduling_pc' = "idle"
  /\ scheduling_tick' = NoSchedulingTick
  /\ scheduling_results' = <<>>
  /\ scheduling_run_requests' = <<>>
  /\ scheduling_reactions' = {}

SchedulingNext ==
  \/ BeginSchedulingTick /\ UNCHANGED outsideScheduling
  \/ ScheduleAsset /\ UNCHANGED outsideScheduling
  \/ ReactToRequest /\ UNCHANGED outsideScheduling
  \/ BuildSchedulingRunRequests /\ UNCHANGED outsideScheduling
  \/ EndSchedulingTick /\ UNCHANGED outsideScheduling

(* --------------------------- Definitions.merge ------------------------- *)
MaxDefSets == 3

\* original_args of a Definitions object: what its constructor was given.
\* A list is a sequence, a mapping a set of <<key, value>> pairs with one
\* pair per key, and an argument that was not given is None.
DefinitionsArgs(assets, schedules, sensors, jobs, resources, executor, loggers, asset_checks) ==
  [assets |-> assets, schedules |-> schedules, sensors |-> sensors, jobs |-> jobs,
   resources |-> resources, executor |-> executor, loggers |-> loggers,
   asset_checks |-> asset_checks]

\* Definitions objects a caller may merge.
DefinitionsPool ==
  { DefinitionsArgs(Some(<<"raw", "clean">>), Some(<<"nightly">>), None, Some(<<"etl_job">>),
                    Some({<<"io_manager", "fs">>}), Some("in_process"), None, None),
    DefinitionsArgs(Some(<<"model">>), None, Some(<<"on_new_data">>), None,
                    Some({<<"warehouse", "pg">>}), None, Some({<<"console", "json">>}),
                    Some(<<"model_check">>)),
    DefinitionsArgs(Some(<<"report">>), None, None, Some(<<"report_job">>),
                    Some({<<"io_manager", "fs">>}), Some("in_process"),
                    Some({<<"console", "plain">>}), None),
    DefinitionsArgs(None, Some(<<"hourly">>), None, None,
                    Some({<<"io_manager", "s3">>, <<"slack", "hook">>}), Some("multiprocess"),
                    None, Some(<<"ops_check">>)),
    DefinitionsArgs(Some(<<>>), None, None, None, None, None, Some({}), None) }

\* "x or []"
OrEmptyList(x) == IF x = None \/ x = Some(<<>>) THEN <<>> ELSE x[1]

\* "x or {}"
OrEmptyDict(x) == IF x = None \/ x = Some({}) THEN {} ELSE x[1]

Keys(mapping) == {kv[1] : kv \in mapping}

KeyInWithOtherValue(key, value, mapping) == \E kv \in mapping : kv[1] = key /\ kv[2] # value

\* "if resource_key in resources", "if logger_key in loggers"
KeyIn(key, value, mapping) == key \in Keys(mapping)

\* "if executor is not None and executor != def_set.original_args['executor']"
ExecutorClash(executor, def_set_executor) ==
  def_set_executor # None /\ executor # None /\ executor # def_set_executor

NothingMerged ==
  [assets |-> <<>>, schedules |-> <<>>, sensors |-> <<>>, jobs |-> <<>>,
   asset_checks |-> <<>>, resources |-> {}, loggers |-> {}, executor |-> None]

NoOutcome == [error |-> "none", definitions |-> None]

MergeInit ==
  /\ merge_pc = "idle"
  /\ def_sets = <<>>
  /\ merge_i = 0
  /\ merged = NothingMerged
  /\ merge_outcome = NoOutcome

SequencesUpTo(n, S) == UNION {[1..k -> S] : k \in 0..n}

\* merge(*def_sets) is called; the accumulators are empty.
CallMerge ==
  /\ merge_pc = "idle"
  /\ def_sets' \in SequencesUpTo(MaxDefSets, DefinitionsPool)
  /\ merge_pc' = "loop"
  /\ merge_i' = 0
  /\ merged' = NothingMerged
  /\ merge_outcome' = NoOutcome

\* One pass of "for i, def_set in enumerate(def_sets)".
MergeDefSet ==
  /\ merge_pc = "loop"
  /\ merge_i < Len(def_sets)
  /\ LET def_set == def_sets[merge_i + 1]
         resources == OrEmptyDict(def_set.resources)
         loggers == OrEmptyDict(def_set.loggers)
     IN IF \/ \E kv \in resources : KeyIn(kv[1], kv[2], merged.resources)
           \/ \E kv \in loggers : KeyIn(kv[1], kv[2], merged.loggers)
           \/ ExecutorClash(merged.executor, def_set.executor)
        THEN /\ merge_pc' = "raised"
             /\ merge_outcome' = [NoOutcome EXCEPT !.error = "DagsterInvariantViolationError"]
             /\ UNCHANGED <<merge_i, merged>>
        ELSE /\ merged' =
                  [assets |-> merged.assets \o OrEmptyList(def_set.assets),
                   asset_checks |-> merged.asset_checks \o OrEmptyList(def_set.asset_checks),
                   schedules |-> merged.schedules \o OrEmptyList(def_set.schedules),
                   sensors |-> merged.sensors \o OrEmptyList(def_set.sensors),
                   jobs |-> merged.jobs \o OrEmptyList(def_set.jobs),
                   resources |-> merged.resources \cup resources,
                   loggers |-> merged.loggers \cup loggers,
                   executor |-> IF def_set.executor # None THEN def_set.executor
                                ELSE merged.executor]
             /\ merge_i' = merge_i + 1
             /\ UNCHANGED <<merge_pc, merge_outcome>>
  /\ UNCHANGED def_sets

\* "return Definitions(assets=assets, ...)"
MergeReturn ==
  /\ merge_pc = "loop"
  /\ merge_i = Len(def_sets)
  /\ merge_pc' = "returned"
  /\ merge_outcome' =
       [NoOutcome EXCEPT !.definitions =
          Some(DefinitionsArgs(Some(merged.assets), Some(merged.schedules),
                               Some(merged.sensors), Some(merged.jobs),
                               Some(merged.resources), merged.executor,
                               Some(merged.loggers), Some(merged.asset_checks)))]
  /\ UNCHANGED <<def_sets, merge_i, merged>>

\* The caller has its Definitions or its exception.
MergeEnds ==
  /\ merge_pc \in {"returned", "raised"}
  /\ merge_pc' = "idle"
  /\ def_sets' = <<>>
  /\ merge_i' = 0
  /\ merged' = NothingMerged
  /\ merge_outcome' = NoOutcome

MergeNext ==
  \/ CallMerge /\ UNCHANGED outsideMerge
  \/ MergeDefSet /\ UNCHANGED outsideMerge
  \/ MergeReturn /\ UNCHANGED outsideMerge
  \/ MergeEnds /\ UNCHANGED outsideMerge

(* --------------------------- infer_vscode_path ------------------------- *)
MaxDepth == 3

DirectoryNames == {"home", "work"}

\* Absolute paths: the sequence of names below the root; <<>> is the root.
Paths == SequencesUpTo(MaxDepth, DirectoryNames)

\* Path.parent: the parent of the root is the root.
parent(path) == IF path = <<>> THEN <<>> ELSE SubSeq(path, 1, Len(path) - 1)

\* (path / ".vscode").exists()
exists_vscode(dirs, path) == path \in dirs

InferInit ==
  /\ infer_pc = "idle"
  /\ vscode_dirs = {}
  /\ argument_path = <<>>
  /\ base_path = <<>>
  /\ infer_result = None

\* infer_vscode_path(base_path) is called on some file system.
CallInferVscodePath ==
  /\ infer_pc = "idle"
  /\ vscode_dirs' \in SUBSET {<<>>, <<"home">>, <<"home", "work">>, <<"work">>}
  /\ \E path \in Paths :
       /\ argument_path' = path
       /\ base_path' = path
  /\ infer_pc' = "loop"
  /\ infer_result' = None

\* One pass of "while base_path != base_path.parent".
InferLoop ==
  /\ infer_pc = "loop"
  /\ base_path # parent(base_path)
  /\ IF exists_vscode(vscode_dirs, base_path)
     THEN /\ infer_result' = Some(base_path)
          /\ infer_pc' = "returned"
          /\ UNCHANGED base_path
     ELSE /\ base_path' = parent(base_path)
          /\ UNCHANGED <<infer_result, infer_pc>>
  /\ UNCHANGED <<vscode_dirs, argument_path>>

\* The loop is left: "return None".
InferReturnNone ==
  /\ infer_pc = "loop"
  /\ base_path = parent(base_path)
  /\ infer_result' = None
  /\ infer_pc' = "returned"
  /\ UNCHANGED <<vscode_dirs, argument_path, base_path>>

InferEnds ==
  /\ infer_pc = "returned"
  /\ infer_pc' = "idle"
  /\ vscode_dirs' = {}
  /\ argument_path' = <<>>
  /\ base_path' = <<>>
  /\ infer_result' = None

InferNext ==
  \/ CallInferVscodePath /\ UNCHANGED outsideInfer
  \/ InferLoop /\ UNCHANGED outsideInfer
  \/ InferReturnNone /\ UNCHANGED outsideInfer
  \/ InferEnds /\ UNCHANGED outsideInfer

(* ------------------- Definitions: binding of resources ----------------- *)
MaxJobs == 2

\* The resource definition a job gets for "io_manager" when it names none.
default_job_io_manager == "default_job_io_manager"

\* A JobDefinition, as far as the binding reads it: its resource_defs (a
\* mapping, one <<key, value>> pair per key) and what
\* is_missing_required_resources() answers.
JobDefinition(job_resource_defs, missing) ==
  [resource_defs |-> job_resource_defs, is_missing_required_resources |-> missing]

\* The mappings over the keys "io_manager" and "warehouse" with a value of
\* values[key] or no pair for the key.
MappingsOver(values) ==
  { io \cup wh : io \in {{}} \cup {{<<"io_manager", v>>} : v \in values["io_manager"]},
                 wh \in {{}} \cup {{<<"warehouse", v>>} : v \in values["warehouse"]} }

JobResourceDefs ==
  MappingsOver([io_manager |-> {default_job_io_manager, "job_fs"}, warehouse |-> {"job_pg"}])

TopLevelResourceDefs ==
  MappingsOver([io_manager |-> {"top_s3"}, warehouse |-> {"top_pg"}])

\* mapping.get(key): the value under the key, None without one.
Get(mapping, key) ==
  IF key \in Keys(mapping) THEN Some((CHOOSE kv \in mapping : kv[1] = key)[2]) ELSE None

\* {**base, **over}
Overlaid(base, over) == {kv \in base : kv[1] \notin Keys(over)} \cup over

_io_manager_never_replaced(job, top_level) == FALSE

_io_manager_needs_replacement(job, top_level) ==
  /\ Get(job.resource_defs, "io_manager") = Some(default_job_io_manager)
  /\ "io_manager" \in Keys(top_level)

\* job.with_top_level_resources(resource_defs): the job with these resources.
with_top_level_resources(job, bound) ==
  [job EXCEPT !.resource_defs = bound]

\* The mapping handed to with_top_level_resources.
ResourcesToBind(job, top_level) ==
  Overlaid(Overlaid(top_level, job.resource_defs),
           IF _io_manager_needs_replacement(job, top_level)
           THEN {<<"io_manager", Get(top_level, "io_manager")[1]>>}
           ELSE {})

AttachInit ==
  /\ attach_pc = "idle"
  /\ attach_jobs = <<>>
  /\ resource_defs = {}
  /\ unsatisfied_jobs = {}
  /\ jobs_with_resources = <<>>

\* The call, on some jobs and top-level resources.
CallAttach ==
  /\ attach_pc = "idle"
  /\ \E n \in 1..MaxJobs :
       attach_jobs' \in [1..n -> {JobDefinition(r, m) : r \in JobResourceDefs, m \in BOOLEAN}]
  /\ resource_defs' \in TopLevelResourceDefs
  /\ attach_pc' = "find_unsatisfied"
  /\ UNCHANGED <<unsatisfied_jobs, jobs_with_resources>>

\* "unsatisfied_jobs = [...]"
FindUnsatisfiedJobs ==
  /\ attach_pc = "find_unsatisfied"
  /\ unsatisfied_jobs' =
       { i \in 1..Len(attach_jobs) :
           \/ attach_jobs[i].is_missing_required_resources
           \/ _io_manager_needs_replacement(attach_jobs[i], resource_defs) }
  /\ attach_pc' = "bind"
  /\ UNCHANGED <<attach_jobs, resource_defs, jobs_with_resources>>

\* "unsatisfied_job_to_resource_bound_job = {...}", "jobs_with_resources = [...]"
BindResources ==
  /\ attach_pc = "bind"
  /\ jobs_with_resources' =
       [ i \in 1..Len(attach_jobs) |->
           IF i \in unsatisfied_jobs
           THEN with_top_level_resources(attach_jobs[i],
                                         ResourcesToBind(attach_jobs[i], resource_defs))
           ELSE attach_jobs[i] ]
  /\ attach_pc' = "returned"
  /\ UNCHANGED <<attach_jobs, resource_defs, unsatisfied_jobs>>

AttachEnds ==
  /\ attach_pc = "returned"
  /\ attach_pc' = "idle"
  /\ attach_jobs' = <<>>
  /\ resource_defs' = {}
  /\ unsatisfied_jobs' = {}
  /\ jobs_with_resources' = <<>>

AttachNext ==
  \/ CallAttach /\ UNCHANGED outsideAttach
  \/ FindUnsatisfiedJobs /\ UNCHANGED outsideAttach
  \/ BindResources /\ UNCHANGED outsideAttach
  \/ AttachEnds /\ UNCHANGED outsideAttach

(* ----------------- AutomationConditionSensorDefinition ----------------- *)
\* check.opt_bool_param(value, name, default)
opt_bool_param(value, default) == IF value = None THEN default ELSE value[1]

NoKwargs == [user_code |-> None, default_automation_condition |-> None,
             asset_selection |-> {}]

\* The keyword arguments of a construction.
SensorKwargs ==
  [user_code : {None, Some(TRUE), Some(FALSE)},
   default_automation_condition : {None, Some("eager")},
   asset_selection : Selections]

EvaluationFnOfUserCode(user_code) == "evaluate_automation_conditions"

\* "evaluation_fn=functools.partial(evaluate_automation_conditions,
\*  sensor_def=self) if self._user_code else not_supported"
EvaluationFn(user_code) ==
  IF user_code THEN "evaluate_automation_conditions" ELSE "not_supported"

\* The contexts an evaluation function may be called with, and the history
\* the instance of the context holds.
EvaluationContexts ==
  [cursor : InitialCursorStrings, repository_def : BOOLEAN, now : 1..MaxClock,
   materialized : {[ap \in AssetPartitions |-> 0],
                   [ap \in AssetPartitions |-> IF ap[1] = "raw" THEN 1 ELSE 0]}]

NoEvaluation == [context |-> None, error |-> "none", sensor_result |-> None]

\* not_supported(context)
not_supported(context) ==
  [context |-> Some(context), error |-> "NotImplementedError", sensor_result |-> None]

\* evaluate_automation_conditions(context, sensor_def)
evaluate_automation_conditions(context, sensor) ==
  IF ~context.repository_def
  THEN [context |-> Some(context), error |-> "CheckError", sensor_result |-> None]
  ELSE [context |-> Some(context), error |-> "none",
        sensor_result |-> Some(TickOutputs(context.cursor, context.now,
                                           sensor.asset_selection,
                                           context.materialized))]

DefinitionInit ==
  /\ definition_pc = "idle"
  /\ sensor_kwargs = NoKwargs
  /\ sensor_def = None
  /\ definition_error = "none"
  /\ evaluation = NoEvaluation

\* AutomationConditionSensorDefinition(name, asset_selection=..., **kwargs)
ConstructSensor ==
  /\ definition_pc = "idle"
  /\ \E kwargs \in SensorKwargs :
       LET user_code == opt_bool_param(kwargs.user_code, FALSE)
       IN /\ sensor_kwargs' = kwargs
          /\ IF kwargs.default_automation_condition # None /\ ~user_code
             THEN /\ definition_error' = "CheckError"
                  /\ sensor_def' = None
                  /\ definition_pc' = "failed"
             ELSE /\ definition_error' = "none"
                  /\ sensor_def' =
                       Some([_user_code |-> user_code,
                             _default_automation_condition |->
                               kwargs.default_automation_condition,
                             asset_selection |-> kwargs.asset_selection,
                             evaluation_fn |-> EvaluationFn(user_code)])
                  /\ definition_pc' = "constructed"
  /\ UNCHANGED evaluation

\* The evaluation function of the sensor is called with a context.
CallEvaluationFn ==
  /\ definition_pc = "constructed"
  /\ \E context \in EvaluationContexts :
       evaluation' =
         IF sensor_def[1].evaluation_fn = "not_supported"
         THEN not_supported(context)
         ELSE evaluate_automation_conditions(context, sensor_def[1])
  /\ definition_pc' = "evaluated"
  /\ UNCHANGED <<sensor_kwargs, sensor_def, definition_error>>

\* The sensor definition is dropped.
DefinitionEnds ==
  /\ definition_pc \in {"failed", "evaluated"}
  /\ definition_pc' = "idle"
  /\ sensor_kwargs' = NoKwargs
  /\ sensor_def' = None
  /\ definition_error' = "none"
  /\ evaluation' = NoEvaluation

DefinitionNext ==
  \/ ConstructSensor /\ UNCHANGED outsideDefinition
  \/ CallEvaluationFn /\ UNCHANGED outsideDefinition
  \/ DefinitionEnds /\ UNCHANGED outsideDefinition

(* ------------------------------ check_tags ----------------------------- *)
MaxTags == 2

\* A string is the sequence of its pieces; '{prefix}x'.format(prefix=p) is p
\* followed by x.
SYSTEM_TAG_PREFIX == <<"dagster", "/">>

SCHEDULE_NAME_TAG == SYSTEM_TAG_PREFIX \o <<"schedule_name">>

BACKFILL_ID_TAG == SYSTEM_TAG_PREFIX \o <<"backfill">>

PARTITION_NAME_TAG == SYSTEM_TAG_PREFIX \o <<"partition">>

PARTITION_SET_TAG == SYSTEM_TAG_PREFIX \o <<"partition_set">>

\* Keys a caller may give: the system tags, the bare prefix, and strings that
\* hold "dagster" or "dagster/" elsewhere or not at all.
TagKeys ==
  { SCHEDULE_NAME_TAG, BACKFILL_ID_TAG, PARTITION_NAME_TAG, PARTITION_SET_TAG,
    SYSTEM_TAG_PREFIX, <<"dagster">>, <<"team">>, <<"my", "dagster", "/", "partition">>,
    <<"/", "dagster">>, <<>> }

\* Values a caller may give, each with its type.
TagValues == {[type |-> "str", value |-> "data"], [type |-> "int", value |-> "7"]}

\* The arguments: None, or a mapping of at most MaxTags keys.
TagArguments ==
  {None} \cup
  { Some(m) : m \in { m \in SUBSET (TagKeys \X TagValues) :
                        /\ Cardinality(m) <= MaxTags
                        /\ Cardinality(Keys(m)) = Cardinality(m) } }

equals(tag, prefix) == tag = prefix

\* tag.startswith(prefix)
startswith(tag, prefix) ==
  /\ Len(tag) >= Len(prefix)
  /\ \A i \in 1..Len(prefix) : tag[i] = prefix[i]

\* check.opt_dict_param(obj, name, key_type=str, value_type=str) passes.
opt_dict_param(argument) ==
  argument = None \/ \A kv \in argument[1] : kv[2].type = "str"

CheckTagsInit ==
  /\ check_tags_pc = "idle"
  /\ obj = None
  /\ check_tags_outcome = "none"

\* check_tags(obj, name)
CallCheckTags ==
  /\ check_tags_pc = "idle"
  /\ obj' \in TagArguments
  /\ check_tags_pc' = "opt_dict_param"
  /\ UNCHANGED check_tags_outcome

\* Line 15; what opt_dict_param returns is dropped.
CheckTagsParam ==
  /\ check_tags_pc = "opt_dict_param"
  /\ IF opt_dict_param(obj)
     THEN check_tags_pc' = "loop" /\ UNCHANGED check_tags_outcome
     ELSE check_tags_pc' = "done" /\ check_tags_outcome' = "CheckError"
  /\ UNCHANGED obj

\* Lines 17-21: obj.keys(), and the invariant on each key.
CheckTagsLoop ==
  /\ check_tags_pc = "loop"
  /\ check_tags_outcome' =
       IF obj = None THEN "AttributeError"
       ELSE IF \E tag \in Keys(obj[1]) : startswith(tag, SYSTEM_TAG_PREFIX)
            THEN "CheckError"
            ELSE "returned"
  /\ check_tags_pc' = "done"
  /\ UNCHANGED obj

CheckTagsEnds ==
  /\ check_tags_pc = "done"
  /\ check_tags_pc' = "idle"
  /\ obj' = None
  /\ check_tags_outcome' = "none"

CheckTagsNext ==
  \/ CallCheckTags /\ UNCHANGED outsideTags
  \/ CheckTagsParam /\ UNCHANGED outsideTags
  \/ CheckTagsLoop /\ UNCHANGED outsideTags
  \/ CheckTagsEnds /\ UNCHANGED outsideTags

(* --------------------------- DagsterInstance.get ----------------------- *)
\* A path is the sequence of its pieces, "~" standing first for the user's
\* home; <<>> is the empty string.
HomeDirectories == {<<"/root">>, <<"/home", "dagster">>}

\* os.getenv('DAGSTER_HOME'): None when the variable is not in the environment.
DagsterHomeValues ==
  {None, Some(<<>>), Some(<<"~">>), Some(<<"~", "dagster">>), Some(<<"/opt", "dagster">>),
   Some(<<"/srv", "dagster", "home">>)}

FallbackStorages ==
  {None, Some(<<>>), Some(<<"/tmp", "dagit">>), Some(<<"~", "fallback">>)}

\* os.path.expanduser(path)
expanduser(path, home) ==
  IF Len(path) > 0 /\ path[1] = "~" THEN home \o Tail(path) ELSE path

_is_dagster_home_never_set(env) == FALSE

\* bool(os.getenv('DAGSTER_HOME'))
_is_dagster_home_set(env) == env.DAGSTER_HOME # None /\ env.DAGSTER_HOME # Some(<<>>)

\* _dagster_home(), where DAGSTER_HOME is not empty.
_dagster_home(env) == expanduser(env.DAGSTER_HOME[1], env.HOME)

\* DagsterInstance.from_config(config_dir): a persistent instance whose ref
\* is read from the directory.
from_config(config_dir) ==
  [instance_type |-> "PERSISTENT", ref |-> Some(config_dir),
   run_storage |-> "ref.run_storage"]

\* DagsterInstance.ephemeral(tempdir)
ephemeral(tempdir) ==
  [instance_type |-> "EPHEMERAL", ref |-> None, run_storage |-> "InMemoryRunStorage"]

NoEnviron == [DAGSTER_HOME |-> None, HOME |-> <<>>]

GetInit ==
  /\ get_pc = "idle"
  /\ environ = NoEnviron
  /\ fallback_storage = None
  /\ got_instance = None

\* DagsterInstance.get(fallback_storage) in some environment.
CallGet ==
  /\ get_pc = "idle"
  /\ environ' \in [DAGSTER_HOME : DagsterHomeValues, HOME : HomeDirectories]
  /\ fallback_storage' \in FallbackStorages
  /\ get_pc' = "called"
  /\ UNCHANGED got_instance

\* "if _is_dagster_home_set(): ... elif fallback_storage is not None: ... else:"
GetBranches ==
  /\ get_pc = "called"
  /\ get_pc' = IF _is_dagster_home_set(environ) THEN "from_home"
               ELSE IF fallback_storage # None THEN "from_fallback" ELSE "ephemeral"
  /\ UNCHANGED <<environ, fallback_storage, got_instance>>

\* "return DagsterInstance.from_config(_dagster_home())"
GetFromDagsterHome ==
  /\ get_pc = "from_home"
  /\ got_instance' = Some(from_config(_dagster_home(environ)))
  /\ get_pc' = "returned"
  /\ UNCHANGED <<environ, fallback_storage>>

\* "return DagsterInstance.from_config(fallback_storage)"
GetFromFallback ==
  /\ get_pc = "from_fallback"
  /\ got_instance' = Some(from_config(fallback_storage[1]))
  /\ get_pc' = "returned"
  /\ UNCHANGED <<environ, fallback_storage>>

\* "return DagsterInstance.ephemeral(fallback_storage)"
GetEphemeral ==
  /\ get_pc = "ephemeral"
  /\ got_instance' = Some(ephemeral(fallback_storage))
  /\ get_pc' = "returned"
  /\ UNCHANGED <<environ, fallback_storage>>

GetEnds ==
  /\ get_pc = "returned"
  /\ get_pc' = "idle"
  /\ environ' = NoEnviron
  /\ fallback_storage' = None
  /\ got_instance' = None

GetNext ==
  \/ CallGet /\ UNCHANGED outsideGet
  \/ GetBranches /\ UNCHANGED outsideGet
  \/ GetFromDagsterHome /\ UNCHANGED outsideGet
  \/ GetFromFallback /\ UNCHANGED outsideGet
  \/ GetEphemeral /\ UNCHANGED outsideGet
  \/ GetEnds /\ UNCHANGED outsideGet

(* ---------------- DagsterInstance: events and subscribers -------------- *)
MaxEvents == 2

MaxListeners == 2

Callbacks == {"cb1", "cb2"}

\* An event record: a plain log message, a dagster event of a step, or a
\* dagster event of the pipeline.
EventKinds == {"message", "step_event", "pipeline_event"}

is_dagster_event(event) == event.kind \in {"step_event", "pipeline_event"}

is_pipeline_event_never(event) == FALSE

\* event.dagster_event.is_pipeline_event
is_pipeline_event(event) == event.kind = "pipeline_event"

\* The runs of the events: one pipeline, not started.
EventRuns == {run \in PipelineRuns : run.pipeline_name = "etl"}

SubscribersOfEveryRun(subscribers, run_id) == subscribers["r1"] \o subscribers["r2"]

\* self._subscribers[run_id]
SubscribersOf(subscribers, run_id) == subscribers[run_id]

NotHandling ==
  [pc |-> "idle", event |-> None, registered |-> <<>>, index |-> 0, error |-> "none",
   logged |-> FALSE]

Registrations == Len(_subscribers["r1"]) + Len(_subscribers["r2"])

EventInit ==
  /\ event_storage = <<>>
  /\ _subscribers = [r \in RunIds |-> <<>>]
  /\ handling = NotHandling
  /\ events_seen = 0
  /\ sub_calls = <<>>

\* DagsterInstance.add_run(pipeline_run); runs are added before the first
\* event is handled.
AddRun ==
  /\ events_seen = 0
  /\ \E run \in EventRuns :
       LET added == add_run(run_storage, run)
       IN /\ added.error = "none"
          /\ run_storage' = added.storage
          /\ add_runs' = [add_runs EXCEPT ![run.run_id] = @ + 1]
  /\ UNCHANGED <<call, calls_started, eventVars>>

\* add_event_listener(run_id, cb)
AddEventListener ==
  /\ Registrations < MaxListeners
  /\ \E run_id \in RunIds, cb \in Callbacks :
       _subscribers' = [_subscribers EXCEPT ![run_id] = Append(@, cb)]
  /\ UNCHANGED <<event_storage, handling, events_seen, sub_calls, instanceVars>>

\* handle_new_event(event): "run_id = event.run_id"
CallHandleNewEvent ==
  /\ handling.pc = "idle"
  /\ events_seen < MaxEvents
  /\ \E run_id \in RunIds, kind \in EventKinds :
       handling' = [NotHandling EXCEPT
                      !.pc = "store_event",
                      !.event = Some([id |-> events_seen + 1, run_id |-> run_id,
                                      kind |-> kind]),
                      !.registered = _subscribers[run_id]]
  /\ events_seen' = events_seen + 1
  /\ UNCHANGED <<event_storage, _subscribers, sub_calls, instanceVars>>

\* "self._event_storage.store_event(event)": the event is stored, or the
\* storage raises.
StoreEvent ==
  /\ handling.pc = "store_event"
  /\ \/ /\ event_storage' = Append(event_storage, handling.event[1])
        /\ handling' = [handling EXCEPT !.pc = "run_event"]
     \/ /\ handling' = [handling EXCEPT !.pc = "raised", !.error = "store_event"]
        /\ UNCHANGED event_storage
  /\ UNCHANGED <<_subscribers, events_seen, sub_calls, instanceVars>>

\* "if event.is_dagster_event and event.dagster_event.is_pipeline_event:
\*      self._run_storage.handle_run_event(run_id, event.dagster_event)"
HandleRunEventOfNewEvent ==
  /\ handling.pc = "run_event"
  /\ LET event == handling.event[1]
     IN IF is_dagster_event(event) /\ is_pipeline_event(event)
        THEN /\ run_storage' = handle_run_event(run_storage, event.run_id)
             /\ handling' = [handling EXCEPT !.pc = "subscribers", !.index = 1]
        ELSE /\ handling' = [handling EXCEPT !.pc = "subscribers", !.index = 1]
             /\ UNCHANGED run_storage
  /\ UNCHANGED <<event_storage, _subscribers, events_seen, sub_calls, call,
                 calls_started, add_runs>>

\* "for sub in self._subscribers[run_id]: sub(event)": the next subscriber
\* is called and returns, or raises.
CallSubscriber ==
  /\ handling.pc = "subscribers"
  /\ LET event == handling.event[1]
         subs == SubscribersOf(_subscribers, event.run_id)
     IN /\ handling.index <= Len(subs)
        /\ sub_calls' = Append(sub_calls,
             [sub |-> subs[handling.index], event |-> event,
              stored |-> \E i \in 1..Len(event_storage) : event_storage[i] = event,
              run |-> run_storage[event.run_id]])
        /\ \/ handling' = [handling EXCEPT !.index = @ + 1]
           \/ handling' = [handling EXCEPT !.pc = "raised", !.error = "subscriber"]
  /\ UNCHANGED <<event_storage, _subscribers, events_seen, instanceVars>>

\* The loop over the subscribers is through: handle_new_event returns.
HandleNewEventReturns ==
  /\ handling.pc = "subscribers"
  /\ handling.index > Len(SubscribersOf(_subscribers, handling.event[1].run_id))
  /\ handling' = [handling EXCEPT !.pc = "returned"]
  /\ UNCHANGED <<event_storage, _subscribers, events_seen, sub_calls, instanceVars>>

\* The caller of handle_new_event has its return or its exception.
emit_swallows(h) == [h EXCEPT !.pc = "returned", !.error = "none", !.logged = TRUE]

\* _EventListenerLogHandler.emit, "except Exception as e": the error is
\* logged (logging.critical, logging.exception) and raised again.
emit_except(h) == [h EXCEPT !.pc = "emit_raised", !.logged = TRUE]

\* handle_new_event was called by the log handler's emit and raised.
EmitExcept ==
  /\ handling.pc = "raised"
  /\ handling' = emit_except(handling)
  /\ UNCHANGED <<event_storage, _subscribers, events_seen, sub_calls, instanceVars>>

HandlingEnds ==
  /\ handling.pc \in {"returned", "raised", "emit_raised"}
  /\ handling' = NotHandling
  /\ sub_calls' = <<>>
  /\ UNCHANGED <<event_storage, _subscribers, events_seen, instanceVars>>

EventNext ==
  \/ AddRun /\ UNCHANGED outsideEvent
  \/ AddEventListener /\ UNCHANGED outsideEvent
  \/ CallHandleNewEvent /\ UNCHANGED outsideEvent
  \/ StoreEvent /\ UNCHANGED outsideEvent
  \/ HandleRunEventOfNewEvent /\ UNCHANGED outsideEvent
  \/ CallSubscriber /\ UNCHANGED outsideEvent
  \/ HandleNewEventReturns /\ UNCHANGED outsideEvent
  \/ EmitExcept /\ UNCHANGED outsideEvent
  \/ HandlingEnds /\ UNCHANGED outsideEvent

(* ---------------------------- specifications -------------------------- *)
Init ==
  /\ SensorInit
  /\ InstanceInit
  /\ SchedulingInit
  /\ MergeInit
  /\ InferInit
  /\ AttachInit
  /\ DefinitionInit
  /\ CheckTagsInit
  /\ GetInit
  /\ EventInit

Next ==
  \/ BeginTick /\ UNCHANGED outsideSensor
  \/ EvaluateNext /\ UNCHANGED outsideSensor
  \/ UpdateCursor /\ UNCHANGED outsideSensor
  \/ BuildRunRequests /\ UNCHANGED outsideSensor
  \/ Return /\ UNCHANGED outsideSensor
  \/ RaiseInTick /\ UNCHANGED outsideSensor
  \/ Persist /\ UNCHANGED outsideSensor
  \/ Discard /\ UNCHANGED outsideSensor
  \/ Abandon /\ UNCHANGED outsideSensor
  \/ AdvanceClock /\ UNCHANGED outsideSensor
  \/ ExternalMaterialization /\ UNCHANGED outsideSensor
  \/ RunCompletes /\ UNCHANGED outsideSensor

\* The sensor tick beside its daemon and environment.
Spec == Init /\ [][Next]_vars

\* Nothing is running: the state each component below is started in.
AtRest ==
  /\ SensorAtRest
  /\ InstanceInit
  /\ SchedulingInit
  /\ MergeInit
  /\ InferInit
  /\ AttachInit
  /\ DefinitionInit
  /\ CheckTagsInit
  /\ GetInit
  /\ EventInit

\* Callers of the instance creating runs.
InstanceSpec == AtRest /\ [][InstanceNext]_vars

\* Scheduling ticks under the default policy.
SchedulingSpec == AtRest /\ [][SchedulingNext]_vars

\* Calls of Definitions.merge.
MergeSpec == AtRest /\ [][MergeNext]_vars

\* Calls of infer_vscode_path.
InferSpec == AtRest /\ [][InferNext]_vars

\* Calls of _attach_resources_to_jobs_and_instigator_jobs.
AttachSpec == AtRest /\ [][AttachNext]_vars

\* Sensor definitions constructed and evaluated.
DefinitionSpec == AtRest /\ [][DefinitionNext]_vars

\* Calls of check_tags.
CheckTagsSpec == AtRest /\ [][CheckTagsNext]_vars

\* Calls of DagsterInstance.get.
GetSpec == AtRest /\ [][GetNext]_vars

\* Events handled by the instance beside registrations of listeners.
EventSpec == AtRest /\ [][EventNext]_vars

TypeOK ==
  /\ pc \in {"idle", "evaluate", "build", "record", "done", "raised"}
  /\ clock \in 1..MaxClock
  /\ ticks \in 0..MaxTicks

(* ------------------------------ properties ---------------------------- *)
HasResult(rs, k) == \E i \in 1..Len(rs) : rs[i].asset_key = k

ResultFor(rs, k) == rs[CHOOSE i \in 1..Len(rs) : rs[i].asset_key = k]

Recorded(k) ==
  \E i \in 1..Len(sensor_result[1].automation_condition_evaluations) :
     sensor_result[1].automation_condition_evaluations[i].asset_key = k

\* The running tick started from the cursor the last completed tick returned.
FollowsLastRun ==
  /\ last_committed # None
  /\ context_cursor = last_committed[1].cursor

C2_FailedTickReturnsNothing ==
  [][(pc = "raised" \/ pc' = "raised")
       => /\ sensor_result' = None
          /\ persisted' = persisted
          /\ in_flight' = in_flight]_vars

\* C2 witness: a tick that follows a committed tick fails in mid evaluation.
C2_Witness ==
  /\ pc = "raised"
  /\ has_repository
  /\ results # <<>>
  /\ last_committed # None
  /\ persisted = last_committed[1].cursor

\* C3: a result whose value_hash equals the result_value_hash of its previous
\* condition cursor and whose true-set is empty is not among the returned
\* automation_condition_evaluations.
C3_UnchangedEmptyNotRecorded ==
  sensor_result # None =>
    \A i \in 1..Len(results) :
      LET prev == get_previous_condition_cursor(cursor, results[i].asset_key)
      IN (/\ prev # None
          /\ prev[1].result_value_hash = results[i].value_hash
          /\ results[i].true_slice = {})
         => ~Recorded(results[i].asset_key)

\* C3 witness: a returned tick with such a suppressed result.
C3_Witness ==
  /\ pc = "done"
  /\ \E i \in 1..Len(results) :
       LET prev == get_previous_condition_cursor(cursor, results[i].asset_key)
       IN /\ prev # None
          /\ prev[1].result_value_hash = results[i].value_hash
          /\ results[i].true_slice = {}
          /\ ~Recorded(results[i].asset_key)

\* C4: when a tick follows the last completed tick and an asset's true-set
\* was empty in that tick and is empty in this one, this tick returns no
\* evaluation record for the asset, and the new cursor holds the asset's
\* newly computed sub-cursor.
C4_EmptyTwiceNotRecorded ==
  (sensor_result # None /\ FollowsLastRun) =>
    \A i \in 1..Len(results) :
      LET k == results[i].asset_key
      IN (/\ results[i].true_slice = {}
          /\ HasResult(last_committed[1].results, k)
          /\ ResultFor(last_committed[1].results, k).true_slice = {})
         => /\ ~Recorded(k)
            /\ new_cursor[1].cc[k] = Some(results[i].new_cursor)

\* C4 witness: such a pair of ticks where the sub-cursor really changed.
C4_Witness ==
  /\ pc = "done"
  /\ FollowsLastRun
  /\ \E i \in 1..Len(results) :
       LET k == results[i].asset_key
       IN /\ results[i].true_slice = {}
          /\ HasResult(last_committed[1].results, k)
          /\ ResultFor(last_committed[1].results, k).true_slice = {}
          /\ ~Recorded(k)
          /\ new_cursor[1].cc[k] # cursor.cc[k]

\* C5: every result with a non-empty true-set is among the returned
\* automation_condition_evaluations, whatever its value_hash.
C5_NonEmptyAlwaysRecorded ==
  sensor_result # None =>
    \A i \in 1..Len(results) :
      results[i].true_slice # {} => Recorded(results[i].asset_key)

\* C5 witness: a non-empty true-set with an unchanged hash is recorded.
C5_Witness ==
  /\ pc = "done"
  /\ \E i \in 1..Len(results) :
       LET prev == get_previous_condition_cursor(cursor, results[i].asset_key)
       IN /\ results[i].true_slice # {}
          /\ prev # None
          /\ prev[1].result_value_hash = results[i].value_hash
          /\ Recorded(results[i].asset_key)

C7_UpstreamEvaluatedFirst ==
  /\ \A i \in 1..Len(results) :
       \A u \in Deps(results[i].asset_key) \cap selection :
         \E j \in 1..(i - 1) : results[j].asset_key = u
  /\ \A i \in 1..Len(observed) :
       \A o \in observed[i] : o[2] = RequestedThisTick(results, o[1])

\* C7 witness: clean was evaluated after raw and agg after clean, and agg
\* read a non-empty result of clean.
C7_Witness ==
  /\ Len(results) = 3
  /\ results[1].asset_key = "raw"
  /\ results[2].asset_key = "clean"
  /\ results[3].asset_key = "agg"
  /\ \E o \in observed[3] : o[1] = "clean" /\ o[2] # {}

\* C8: in the new cursor an asset with a result in this tick holds that
\* result's new sub-cursor, every other key holds what the loaded cursor held.
C8_PartialCursorUpdate ==
  new_cursor # None =>
    \A k \in AllKeys :
      IF HasResult(results, k)
      THEN new_cursor[1].cc[k] = Some(ResultFor(results, k).new_cursor)
      ELSE new_cursor[1].cc[k] = cursor.cc[k]

\* C8 witness: an asset outside the selection keeps a sub-cursor that the
\* loaded cursor had, next to evaluated assets whose sub-cursors are new.
C8_Witness ==
  /\ pc = "done"
  /\ \E k \in AllKeys :
       /\ ~HasResult(results, k)
       /\ cursor.cc[k] # None
       /\ new_cursor[1].cc[k] = cursor.cc[k]
  /\ \E k \in AllKeys :
       /\ HasResult(results, k)
       /\ new_cursor[1].cc[k] # cursor.cc[k]

Malformed(str) == str.version \notin {CursorVersion, NoCursorString.version}

Loaded == pc \in {"evaluate", "build", "record", "done"} \/ (pc = "raised" /\ has_repository)

\* C10: a tick whose cursor string is malformed or of a foreign version gets
\* past the cursor load with the empty initial cursor, every asset is
\* evaluated without a previous sub-cursor, and when the tick returns it
\* returns a new cursor and a record for every evaluated asset.
C10_MalformedCursorFallsBack ==
  (Loaded /\ Malformed(context_cursor)) =>
    /\ cursor = EmptyCursor
    /\ \A k \in AllKeys : get_previous_condition_cursor(cursor, k) = None
    /\ pc = "done" =>
         /\ sensor_result # None
         /\ sensor_result[1].cursor.version = CursorVersion
         /\ \A i \in 1..Len(results) : Recorded(results[i].asset_key)

\* C10 witness: a tick on a foreign-version string returned run requests.
C10_Witness ==
  /\ pc = "done"
  /\ Malformed(context_cursor)
  /\ context_cursor.entries # <<>>
  /\ sensor_result[1].run_requests # {}
  /\ sensor_result[1].automation_condition_evaluations # <<>>

\* C11: a sub-cursor of the persisted cursor whose asset is not in the current
\* graph is dropped by the load and the tick goes on: neither the loaded
\* cursor, nor the new cursor, nor the serialized cursor the tick returns
\* holds an entry for an asset that is not in the graph.
C11_AbsentAssetDropped ==
  Loaded =>
    \A k \in AllKeys \ GraphKeys :
      /\ get_previous_condition_cursor(cursor, k) = None
      /\ new_cursor # None => new_cursor[1].cc[k] = None
      /\ sensor_result # None =>
           \A i \in 1..Len(sensor_result[1].cursor.entries) :
             sensor_result[1].cursor.entries[i].key # k

\* C11 witness: a tick whose cursor string has an entry for an asset that is
\* not in the graph returned, next to entries it kept.
C11_Witness ==
  /\ pc = "done"
  /\ \E i \in 1..Len(context_cursor.entries) : context_cursor.entries[i].key \notin GraphKeys
  /\ \E k \in GraphKeys : ~HasResult(results, k) /\ cursor.cc[k] # None
  /\ sensor_result # None

C14_RequestsAreTheTrueSets ==
  pc \in {"record", "done"} =>
    /\ to_request = UNION {results[i].true_slice : i \in 1..Len(results)}
    /\ Requested(run_requests) = UNION {results[i].true_slice : i \in 1..Len(results)}

\* C14 witness: a non-empty true-set with the hash of the previous tick is
\* requested, next to a result whose record is not returned.
C14_Witness ==
  /\ pc = "done"
  /\ \E i \in 1..Len(results) :
       LET prev == get_previous_condition_cursor(cursor, results[i].asset_key)
       IN /\ results[i].true_slice # {}
          /\ prev # None
          /\ prev[1].result_value_hash = results[i].value_hash
          /\ results[i].true_slice \subseteq Requested(sensor_result[1].run_requests)
  /\ \E i \in 1..Len(results) : ~Recorded(results[i].asset_key)

\* C17: under the default policy, for A and B with B depending on A, schedule
\* returns launch=False with no cursor and no explicit partition keys for
\* both assets in every context, and the run request list of the tick is
\* empty.
C17_DefaultPolicyLaunchesNothing ==
  /\ \A i \in 1..Len(scheduling_results) :
       /\ scheduling_results[i].asset_key = SchedulingOrder[i]
       /\ scheduling_results[i].result.launch = FALSE
       /\ scheduling_results[i].result.cursor = None
       /\ scheduling_results[i].result.explicit_partition_keys = None
  /\ scheduling_pc = "built" =>
       /\ Len(scheduling_results) = Len(SchedulingOrder)
       /\ scheduling_run_requests = <<>>

\* C17 witness: a tick after an earlier tick, with a previous cursor for B,
\* has asked both policies and built its run requests.
C17_Witness ==
  /\ scheduling_pc = "built"
  /\ Len(scheduling_results) = 2
  /\ scheduling_tick.previous_tick_dt # None
  /\ scheduling_tick.previous_cursors["B"] # None
  /\ scheduling_tick.previous_cursors["A"] = None

\* Results of the running tick and of the last committed tick.
ResultsInSight ==
  {results[i] : i \in 1..Len(results)}
    \cup (IF last_committed = None THEN {}
          ELSE {last_committed[1].results[i] : i \in 1..Len(last_committed[1].results)})

GetOrCreateRunFinishes(p) ==
  /\ call[p].op = "get_or_create_run"
  /\ call[p].pc \notin {"returned", "raised"}
  /\ call'[p].pc \in {"returned", "raised"}

\* C15 as stated: a get_or_create_run call that finds its run id in run
\* storage, on entry or because a racing creator stored it during the call,
\* returns the run stored under that id and raises nothing.
C15_ExistingRunIsReturned ==
  [][\A p \in Callers :
       (GetOrCreateRunFinishes(p) /\ call'[p].existed # "no") =>
         /\ call'[p].pc = "returned"
         /\ call'[p].value # None
         /\ call'[p].value = run_storage[call[p].pipeline_run[1].run_id]]_vars

\* C15: a get_or_create_run call that finds its run id in run storage returns
\* the run stored under that id and raises nothing when the run was stored by
\* a racing creator during the call or the stored run equals the pipeline run
\* it was given; when the id is found on entry and the stored run differs
\* from the pipeline run given, it raises DagsterRunConflict and leaves run
\* storage as it is.
C15_ExistingRunIsReturnedUnlessConflict ==
  [][\A p \in Callers :
       (GetOrCreateRunFinishes(p) /\ call'[p].existed # "no") =>
         LET stored == run_storage[call[p].pipeline_run[1].run_id]
         IN IF call'[p].existed = "on_entry" /\ stored # call[p].pipeline_run
            THEN /\ call'[p].pc = "raised"
                 /\ call'[p].error = "DagsterRunConflict"
                 /\ run_storage' = run_storage
            ELSE /\ call'[p].pc = "returned"
                 /\ stored # None
                 /\ call'[p].value = stored]_vars

\* C15 witness: a call returned the run a racing creator stored during it,
\* which is not the pipeline run the call was given.
C15_Witness ==
  \E p \in Callers :
    /\ call[p].op = "get_or_create_run"
    /\ call[p].pc = "returned"
    /\ call[p].existed = "raced"
    /\ call[p].value # call[p].pipeline_run
    /\ call[p].value = run_storage[call[p].pipeline_run[1].run_id]

\* C16: nothing but the cursor is carried from one tick to the next.  A tick
\* starts with a queryer bound to the present time, the cursor loaded from the
\* persisted string and an evaluator without results, whatever an earlier tick
\* left; and what it returns is a function of that string, that time, the
\* selection and the external history.
C16_OnlyTheCursorIsCarried ==
  [][/\ (pc = "idle" /\ pc' = "evaluate") =>
          /\ evaluation_time' = clock
          /\ context_cursor' = persisted
          /\ cursor' = asset_daemon_cursor_from_instigator_serialized_cursor(persisted, GraphKeys)
          /\ results' = <<>> /\ observed' = <<>> /\ to_request' = {}
          /\ new_cursor' = None /\ run_requests' = {}
     /\ (pc = "record" /\ pc' = "done") =>
          sensor_result' = Some(TickOutputs(context_cursor, evaluation_time, selection,
                                            materialized))]_vars

\* C16 witness: a second tick, after a committed tick at an earlier time and
\* a change of the history, returned something else than that tick.
C16_Witness ==
  /\ pc = "done"
  /\ FollowsLastRun
  /\ last_attempt = None
  /\ evaluation_time > last_committed[1].new_cursor.evaluation_timestamp
  /\ sensor_result[1].run_requests # {}
  /\ results # last_committed[1].results

RECURSIVE Flatten(_)
Flatten(lists) == IF lists = <<>> THEN <<>> ELSE Head(lists) \o Flatten(Tail(lists))

\* The lists the def_sets give under a field, one after the other.
ListsGiven(field) ==
  Flatten([i \in 1..Len(def_sets) |-> OrEmptyList(def_sets[i][field])])

\* Every key of every def_set under a field, with that def_set's value.
ItemsGiven(field) == UNION {OrEmptyDict(def_sets[i][field]) : i \in 1..Len(def_sets)}

MergedIsUnion ==
  /\ merge_pc = "returned"
  /\ \A field \in {"assets", "asset_checks", "schedules", "sensors", "jobs"} :
       merge_outcome.definitions[1][field] = Some(ListsGiven(field))
  /\ \A field \in {"resources", "loggers"} :
       merge_outcome.definitions[1][field] = Some(ItemsGiven(field))

\* Two arguments give the same resource key or the same logger key, or
\* executors that differ.
ArgumentsClash ==
  \E i, j \in 1..Len(def_sets) :
    /\ i < j
    /\ \/ Keys(OrEmptyDict(def_sets[i].resources)) \cap Keys(OrEmptyDict(def_sets[j].resources)) # {}
       \/ Keys(OrEmptyDict(def_sets[i].loggers)) \cap Keys(OrEmptyDict(def_sets[j].loggers)) # {}
       \/ /\ def_sets[i].executor # None
          /\ def_sets[j].executor # None
          /\ def_sets[i].executor # def_sets[j].executor

\* C19 as stated: merge returns a Definitions holding the union of its
\* arguments: assets, asset checks, schedules, sensors and jobs concatenated
\* in argument order, and resources and loggers holding every key of every
\* argument with that argument's value and nothing else.
C19_MergeIsUnion ==
  merge_pc \in {"returned", "raised"} => MergedIsUnion

\* C19: when no resource key and no logger key is given by two arguments and
\* no two arguments give different executors, merge returns that union, with
\* the executor any argument gave; otherwise it raises
\* DagsterInvariantViolationError and returns nothing.
C19_MergeIsUnionUnlessClash ==
  merge_pc \in {"returned", "raised"} =>
    IF ArgumentsClash
    THEN /\ merge_pc = "raised"
         /\ merge_outcome.error = "DagsterInvariantViolationError"
         /\ merge_outcome.definitions = None
    ELSE /\ MergedIsUnion
         /\ \A i \in 1..Len(def_sets) :
              def_sets[i].executor # None =>
                merge_outcome.definitions[1].executor = def_sets[i].executor

\* C19 witness: three arguments, some of whose fields were not given, merged
\* into lists and resources that come from more than one of them.
C19_Witness ==
  /\ merge_pc = "returned"
  /\ Len(def_sets) = 3
  /\ \E i \in 1..3 : def_sets[i].schedules = None
  /\ Len(merge_outcome.definitions[1].assets[1]) >= 3
  /\ Cardinality(merge_outcome.definitions[1].resources[1]) >= 2
  /\ merge_outcome.definitions[1].loggers[1] # {}

\* The base path and all its ancestors, the root included.
Ancestors(path) == {SubSeq(path, 1, k) : k \in 0..Len(path)}

Nearest(path, dirs) ==
  LET found == Ancestors(path) \cap dirs
  IN IF found = {} THEN None
     ELSE Some(CHOOSE d \in found : \A e \in found : Len(e) <= Len(d))

\* C20: infer_vscode_path returns the nearest directory, among base_path and
\* all its ancestors up to and including the file system root, that holds a
\* .vscode, and None only when none of them does.  The loop ends when it
\* reaches the root, before looking into it.
C20_NearestVscodeDirectory ==
  infer_pc = "returned" => infer_result = Nearest(argument_path, vscode_dirs)

C23_NotSupportedWithoutUserCode ==
  definition_pc = "evaluated" =>
    IF sensor_kwargs.user_code = Some(TRUE)
    THEN evaluation.error # "NotImplementedError"
    ELSE evaluation.error = "NotImplementedError" /\ evaluation.sensor_result = None

\* C23 witness: a sensor built with user_code=False was called and raised
\* NotImplementedError on a context whose repository and cursor were fine.
C23_Witness ==
  /\ definition_pc = "evaluated"
  /\ sensor_kwargs.user_code = Some(FALSE)
  /\ evaluation.context # None
  /\ evaluation.context[1].repository_def
  /\ evaluation.error = "NotImplementedError"

\* The key is the reserved prefix followed by something.
Reserved(key) ==
  \E n \in 0..Len(key) : key = SYSTEM_TAG_PREFIX \o SubSeq(key, n + 1, Len(key))

\* C24: a tag mapping from strings to strings is rejected by check_tags
\* exactly when one of its keys starts with "dagster/"; and a mapping that
\* sets dagster/schedule_name, dagster/backfill, dagster/partition or
\* dagster/partition_set is never accepted.
C24_RejectedExactlyWhenReserved ==
  (check_tags_pc = "done" /\ obj # None) =>
    /\ (\A kv \in obj[1] : kv[2].type = "str") =>
         (check_tags_outcome # "returned" <=> \E key \in Keys(obj[1]) : Reserved(key))
    /\ (Keys(obj[1]) \cap {<<"dagster", "/", "schedule_name">>, <<"dagster", "/", "backfill">>,
                           <<"dagster", "/", "partition">>,
                           <<"dagster", "/", "partition_set">>} # {})
         => check_tags_outcome # "returned"

\* C24 witness: a mapping of strings to strings was rejected for the key
\* dagster/partition beside an ordinary key.
C24_Witness ==
  /\ check_tags_pc = "done"
  /\ obj # None
  /\ \A kv \in obj[1] : kv[2].type = "str"
  /\ Keys(obj[1]) = {PARTITION_NAME_TAG, <<"team">>}
  /\ check_tags_outcome = "CheckError"

\* The directory DAGSTER_HOME names, "~" read as the user's home.
HomeDirectory ==
  LET path == environ.DAGSTER_HOME[1]
  IN IF path[1] = "~" THEN environ.HOME \o SubSeq(path, 2, Len(path)) ELSE path

\* C25: DagsterInstance.get returns, when DAGSTER_HOME is set (to a value
\* that is not empty), a persistent instance configured from the directory
\* it names, whatever fallback_storage is; otherwise, when fallback_storage
\* is given, a persistent instance configured from fallback_storage;
\* otherwise an ephemeral in-memory instance.
C25_GetPrecedence ==
  get_pc = "returned" =>
    /\ got_instance # None
    /\ IF environ.DAGSTER_HOME \notin {None, Some(<<>>)}
       THEN /\ got_instance[1].instance_type = "PERSISTENT"
            /\ got_instance[1].ref = Some(HomeDirectory)
       ELSE IF fallback_storage # None
            THEN /\ got_instance[1].instance_type = "PERSISTENT"
                 /\ got_instance[1].ref = fallback_storage
            ELSE /\ got_instance[1].instance_type = "EPHEMERAL"
                 /\ got_instance[1].run_storage = "InMemoryRunStorage"

\* C25 witness: with DAGSTER_HOME set and a fallback storage given, the
\* instance returned is the one of DAGSTER_HOME.
C25_Witness ==
  /\ get_pc = "returned"
  /\ environ.DAGSTER_HOME = Some(<<"~", "dagster">>)
  /\ fallback_storage = Some(<<"/tmp", "dagit">>)
  /\ got_instance # None
  /\ got_instance[1].ref = Some(environ.HOME \o <<"dagster">>)

\* Two callers have each finished a get_or_create_run call for the run id.
BothFinished(p, q, r) ==
  /\ p # q
  /\ \A c \in {p, q} :
       /\ call[c].op = "get_or_create_run"
       /\ call[c].pipeline_run[1].run_id = r
       /\ call[c].pc \in {"returned", "raised"}

\* C26 as stated: after concurrent get_or_create_run calls for one run id,
\* run storage holds one run under the id, add_run stored a run under it at
\* most once, and every caller returned that stored run without an error.
C26_EveryCallerReturnsTheStoredRun ==
  \A p, q \in Callers : \A r \in RunIds :
    BothFinished(p, q, r) =>
      /\ has_run(run_storage, r)
      /\ add_runs[r] <= 1
      /\ \A c \in {p, q} : call[c].pc = "returned" /\ call[c].value = run_storage[r]

\* C26 amended: under every interleaving, add_run stores a run under a run
\* id at most once and the id holds a run exactly when it did; of concurrent
\* get_or_create_run calls for one run id, every caller whose pipeline run
\* equals the stored run returned that stored run, and a caller that got an
\* error got DagsterRunConflict.
C26_OneRunAndMatchingCallersReturnIt ==
  /\ \A r \in RunIds : add_runs[r] <= 1 /\ (has_run(run_storage, r) <=> add_runs[r] = 1)
  /\ \A p, q \in Callers : \A r \in RunIds :
       BothFinished(p, q, r) =>
         \A c \in {p, q} :
           /\ run_storage[r] = call[c].pipeline_run =>
                call[c].pc = "returned" /\ call[c].value = run_storage[r]
           /\ call[c].pc = "raised" => call[c].error = "DagsterRunConflict"

\* C26 witness: two callers raced for one run id with the same pipeline run;
\* one stored it, the other lost the race inside create_run, and both
\* returned the stored run.
C26_Witness ==
  \E p, q \in Callers : \E r \in RunIds :
    /\ BothFinished(p, q, r)
    /\ call[p].pipeline_run = call[q].pipeline_run
    /\ call[p].existed = "no"
    /\ call[q].existed = "raced"
    /\ call[p].pc = "returned" /\ call[q].pc = "returned"
    /\ call[p].value = run_storage[r] /\ call[q].value = run_storage[r]
    /\ add_runs[r] = 1

\* C27: a create_run call that ends on a run id run storage holds raises
\* DagsterRunAlreadyExists and leaves run storage as it was; one that ends on
\* a run id not yet stored returns after adding exactly its run under the id.
C27_CreateRunRaisesOrAdds ==
  [][\A p \in Callers :
       (call[p].op = "create_run" /\ call'[p].pc \in {"returned", "raised"}
          /\ call[p].pc \notin {"returned", "raised"}) =>
         LET run == call[p].pipeline_run[1]
         IN IF has_run(run_storage, run.run_id)
            THEN /\ call'[p].pc = "raised"
                 /\ call'[p].error = "DagsterRunAlreadyExists"
                 /\ run_storage' = run_storage
            ELSE /\ call'[p].pc = "returned"
                 /\ call'[p].value = Some(run)
                 /\ run_storage' = [run_storage EXCEPT ![run.run_id] = Some(run)]]_vars

\* C27 witness: create_run raised DagsterRunAlreadyExists on a run id that
\* holds another run, which is still the one stored.
C27_Witness ==
  \E p \in Callers :
    /\ call[p].op = "create_run"
    /\ call[p].pc = "raised"
    /\ call[p].error = "DagsterRunAlreadyExists"
    /\ has_run(run_storage, call[p].pipeline_run[1].run_id)
    /\ run_storage[call[p].pipeline_run[1].run_id] # call[p].pipeline_run
    /\ add_runs[call[p].pipeline_run[1].run_id] = 1

\* C28: get_or_create_run is idempotent.  A call that ends while run storage
\* holds nothing under the run id, or holds the very pipeline run the call
\* was given (the state a first call leaves), returns that pipeline run and
\* leaves run storage holding exactly it under the id, every other id as it
\* was, with a single add_run for the id.
C28_GetOrCreateRunIsIdempotent ==
  [][\A p \in Callers :
       (call[p].op = "get_or_create_run" /\ call'[p].pc \in {"returned", "raised"}
          /\ call[p].pc \notin {"returned", "raised"}
          /\ run_storage[call[p].pipeline_run[1].run_id] \in {None, call[p].pipeline_run}) =>
         /\ call'[p].pc = "returned"
         /\ call'[p].value = call[p].pipeline_run
         /\ run_storage' = [run_storage EXCEPT ![call[p].pipeline_run[1].run_id] =
                                                  call[p].pipeline_run]
         /\ add_runs'[call[p].pipeline_run[1].run_id] = 1]_vars

\* C28 witness: the third call with one pipeline run; the caller that created
\* the run has called again, both calls at hand found the run on entry and
\* returned it, and add_run stored it once.
C28_Witness ==
  /\ calls_started = 3
  /\ \E r \in RunIds :
       /\ add_runs[r] = 1
       /\ \A p \in Callers :
            /\ call[p].op = "get_or_create_run"
            /\ call[p].pc = "returned"
            /\ call[p].existed = "on_entry"
            /\ call[p].pipeline_run = run_storage[r]
            /\ call[p].value = run_storage[r]

\* The subscribers called so far for the event at hand, in the order called.
Called == [i \in 1..Len(sub_calls) |-> sub_calls[i].sub]

\* C29: handle_new_event keeps a fixed order.  Whenever a subscriber is
\* called the event is stored and, for a pipeline event of a stored run, the
\* run in run storage has been updated; and the subscribers called for the
\* event are, in order, the first ones registered for the event's run; none
\* is called before the event is stored and the run event handled.
C29_StoredThenRunThenSubscribersInOrder ==
  /\ \A i \in 1..Len(sub_calls) :
       /\ sub_calls[i].event = handling.event[1]
       /\ sub_calls[i].stored
       /\ (sub_calls[i].event.kind = "pipeline_event" /\ sub_calls[i].run # None) =>
            sub_calls[i].run[1].status = "STARTED"
  /\ handling.pc # "idle" =>
       /\ Len(Called) <= Len(_subscribers[handling.event[1].run_id])
       /\ Called = SubSeq(_subscribers[handling.event[1].run_id], 1, Len(Called))
  /\ handling.pc \in {"store_event", "run_event"} => sub_calls = <<>>

\* C29 witness: a pipeline event of a stored run was handled to the end; the
\* run was updated and two subscribers were called in the order registered.
C29_Witness ==
  /\ handling.pc = "returned"
  /\ handling.event[1].kind = "pipeline_event"
  /\ run_storage[handling.event[1].run_id] # None
  /\ run_storage[handling.event[1].run_id][1].status = "STARTED"
  /\ _subscribers[handling.event[1].run_id] = <<"cb2", "cb1">>
  /\ Called = <<"cb2", "cb1">>

\* How often the callback occurs in the sequence.
Count(seq, cb) == Cardinality({i \in 1..Len(seq) : seq[i] = cb})

\* For the event at hand, no callback was called more often than it is
\* registered for the event's run; without subscribers none was called.
IsolatedPerRun ==
  handling.pc # "idle" =>
    \A cb \in Callbacks :
      Count(Called, cb) <= Count(_subscribers[handling.event[1].run_id], cb)

Stored == \E i \in 1..Len(event_storage) : event_storage[i] = handling.event[1]

\* C31: when store_event fails the error leaves handle_new_event, run
\* storage is not written for the event and no subscriber is called; when a
\* subscriber raises, the event stays stored and no subscriber registered
\* after it is called for the event; and emit logs the error and raises it
\* again: a call that raised never ends as one that returned.
C31_ErrorsPropagate ==
  [][/\ handling'.error = "store_event" =>
          /\ handling'.pc \in {"raised", "emit_raised"}
          /\ run_storage' = run_storage
          /\ sub_calls' = <<>>
          /\ ~Stored'
     /\ handling'.error = "subscriber" =>
          /\ handling'.pc \in {"raised", "emit_raised"}
          /\ Stored'
          /\ Len(sub_calls') = handling'.index
          /\ handling.error = "subscriber" =>
               sub_calls' = sub_calls /\ event_storage' = event_storage
     /\ handling.pc \in {"raised", "emit_raised"} =>
          /\ handling'.pc \in {"raised", "emit_raised", "idle"}
          /\ handling'.pc # "idle" => handling'.error = handling.error
     /\ handling'.pc = "emit_raised" => handling'.logged /\ handling'.error # "none"]_vars

\* C31 witness: the first of two subscribers raised; the second was not
\* called, the event is stored, and emit has logged the error and raised it.
C31_Witness ==
  /\ handling.pc = "emit_raised"
  /\ handling.error = "subscriber"
  /\ handling.logged
  /\ Stored
  /\ Len(_subscribers[handling.event[1].run_id]) = 2
  /\ Len(sub_calls) = 1

\* C32: a tick has a single evaluation time.  The time read when the tick
\* begins stays the tick's evaluation time however the clock moves on; every
\* result of the tick is stamped with it, and so is the new cursor.
C32_SingleEvaluationTime ==
  [][pc' \in {"evaluate", "build", "record", "done"} =>
       /\ evaluation_time' = (IF pc = "idle" THEN clock ELSE evaluation_time)
       /\ \A i \in 1..Len(results') :
            /\ results'[i].new_cursor.effective_timestamp = evaluation_time'
            /\ results'[i].serializable_evaluation.timestamp = evaluation_time'
       /\ new_cursor' # None =>
            new_cursor'[1].evaluation_timestamp = evaluation_time']_vars

\* C32 witness: the clock moved on during a tick; its results and its new
\* cursor carry the time read at its beginning.
C32_Witness ==
  /\ pc = "done"
  /\ clock > evaluation_time
  /\ Len(results) > 0
  /\ \A i \in 1..Len(results) : results[i].new_cursor.effective_timestamp = evaluation_time
  /\ new_cursor[1].evaluation_timestamp = evaluation_time

\* C33: in a returned tick, every asset for which the loaded cursor holds no
\* previous condition cursor has its evaluation record among the returned
\* automation_condition_evaluations, also with an empty true-set; an asset
\* evaluated without a record is one the loaded cursor holds a condition
\* cursor of.
C33_FirstEvaluationIsRecorded ==
  sensor_result # None =>
    \A i \in 1..Len(results) :
      LET k == results[i].asset_key
      IN /\ get_previous_condition_cursor(cursor, k) = None =>
              /\ Recorded(k)
              /\ \E j \in 1..Len(sensor_result[1].automation_condition_evaluations) :
                   sensor_result[1].automation_condition_evaluations[j] =
                     results[i].serializable_evaluation
         /\ ~Recorded(k) => get_previous_condition_cursor(cursor, k) # None

\* C33 witness: an asset evaluated for the first time with an empty true-set
\* is recorded.
C33_Witness ==
  /\ pc = "done"
  /\ \E i \in 1..Len(results) :
       /\ get_previous_condition_cursor(cursor, results[i].asset_key) = None
       /\ results[i].true_slice = {}
       /\ Recorded(results[i].asset_key)

\* C34: every decision of the default policy is a record with its boolean
\* false and never an absent value: schedule gives launch = FALSE, and
\* react_to_downstream_request and react_to_upstream_request give a
\* RequestReaction with include = FALSE.
C34_EveryDecisionIsPresentAndFalse ==
  /\ \A i \in 1..Len(scheduling_results) : scheduling_results[i].result.launch = FALSE
  /\ \A r \in scheduling_reactions :
       /\ r.reaction # None
       /\ r.reaction[1].include = FALSE

====
